---- MODULE Spec2Model ----
(***************************************************************************)
(* A model of the Radarr genre filter (biker2000on/movie-manager):         *)
(* the HTTP client with its retry loop (radarr_client.py), the deletion    *)
(* loop (deleter.py), the keep list (keep_list.py), the genre filter       *)
(* (filter.py), the scanner (scanner.py) and the delete command            *)
(* (radarr_horror_filter.py).                                              *)
(*                                                                         *)
(* Optional values (Python None, an absent dict key, JSON null) are        *)
(* sequences of length 0 or 1: None is <<>>, a present value v is <<v>>.   *)
(***************************************************************************)
EXTENDS Integers, Sequences, FiniteSets

VARIABLES
    top,              \* entry point of the run: "client", "delete_movies", "cmd_delete"
    pc,               \* control point of the running function
    args,             \* argparse.Namespace of cmd_delete; arguments of a direct call
    call,             \* the _request invocation in progress or last finished
    resp,             \* what requests.request produced at the last attempt
    trace,            \* HTTP attempts and time.sleep calls of the current _request call
    outcome,          \* how the last _request call ended
    deleteLog,        \* every DELETE request put on the wire during the run
    all_movies,       \* cmd_delete: scanner.scan() result
    filtered_movies,  \* cmd_delete: genre-filtered list, then without kept entries
    kept_movies,      \* cmd_delete: entries reported as skipped (keep list)
    keepFile,         \* content of the keep-list file
    keepList,         \* KeepListManager.movies of the run (None before construction)
    confirmation,     \* "not_asked", "accepted" or "declined" (Confirm.ask)
    movies,           \* delete_movies: the list being processed
    keep_files,       \* delete_movies: keep_files argument
    dry_run,          \* delete_movies: dry_run argument
    idx,              \* delete_movies: 1-based position of the loop
    results,          \* delete_movies: {"deleted", "failed", "skipped"}
    callLog,          \* delete_movies: per processed entry, what became of its delete call
    exitCode,         \* return value of the command (None while running)
    now,              \* datetime.now().isoformat() + 'Z' of the last record added
    storeOp,          \* the last KeepListManager call: arguments, result, state before
    self_genre,       \* GenreFilter.genre ("" before construction)
    stats,            \* the get_statistics call: its arguments and the dict returned
    raised,           \* the exception that ended the command: caught by it or not
    selection,        \* cmd_scan: what the checkbox prompt returned
    procs,            \* two runs on one keep-list file: position and list of each
    events,           \* two runs on one keep-list file: their loads and saves in order
    server            \* the ids the server has deleted

vars == <<top, pc, args, call, resp, trace, outcome, deleteLog, all_movies,
          filtered_movies, kept_movies, keepFile, keepList, confirmation,
          movies, keep_files, dry_run, idx, results, callLog, exitCode,
          now, storeOp, self_genre, stats, raised, selection, procs, events,
          server>>

clientVars == <<call, resp, trace, outcome, deleteLog>>
cmdVars == <<all_movies, filtered_movies, kept_movies, keepFile, keepList,
             confirmation, exitCode>>
deleterVars == <<movies, keep_files, dry_run, idx, results, callLog>>
runVars == <<raised, selection, procs, events, server>>
libVarsButRaised == <<now, storeOp, self_genre, stats, selection, procs,
                      events, server>>
libVars == <<now, storeOp, self_genre, stats, raised, selection, procs, events,
             server>>

(***************************************************************************)
(* Bounds of the model.                                                    *)
(***************************************************************************)
MaxMovies == 2        \* longest catalog / entry list
MaxAdds == 2          \* records one store run adds

(***************************************************************************)
(* Values.                                                                 *)
(***************************************************************************)
None == <<>>
Some(v) == <<v>>
Val(o) == o[1]

RECURSIVE SelectSeqIdx(_, _, _)
\* [s[k] : k in 1..Len(s), Keep(s[k])] as a list comprehension, in order
SelectSeqIdx(s, keep, k) ==
    IF k > Len(s) THEN <<>>
    ELSE (IF keep[k] THEN <<s[k]>> ELSE <<>>) \o SelectSeqIdx(s, keep, k + 1)

(***************************************************************************)
(* radarr_client.py                                                        *)
(***************************************************************************)
max_retries == 3
retry_delays == <<1, 2, 4>>

\* response.content / response.json(): an empty body, a JSON object, another
\* JSON value (an array), or a body that is not JSON.
Bodies == {"empty", "object", "array", "text"}
\* requests.request raises instead of returning: the two exceptions _request
\* catches, and any other requests exception (TooManyRedirects, ...).
Retried == {"ConnectionError", "Timeout"}
Failures == Retried \cup {"RequestException"}
Response(status_code, body) ==
    [kind |-> "response", status_code |-> status_code, body |-> body]
\* what one HTTP attempt can produce: 2xx (204: no content), 3xx, 4xx and
\* 5xx answers with the bodies that make the code branch, and the failures
Responses ==
    {Response(200, b) : b \in Bodies}
    \cup {Response(204, "empty"), Response(304, "empty")}
    \cup {Response(400, b) : b \in {"object", "array", "text"}}
    \cup {Response(404, "object"), Response(500, "text"), Response(503, "empty")}
    \cup [kind : Failures, status_code : {0}, body : {"empty"}]
NoResponse == [kind |-> "none", status_code |-> 0, body |-> "empty"]

\* endpoint paths; f"/api/v3/movie/{movie_id}" keeps the id apart
NoEndpoint == [path |-> "", id |-> <<>>]
SystemStatus == [path |-> "/api/v3/system/status", id |-> <<>>]
MovieList == [path |-> "/api/v3/movie", id |-> <<>>]
Exclusions == [path |-> "/api/v3/exclusions", id |-> <<>>]
MovieEndpoint(movie_id) == [path |-> "/api/v3/movie/", id |-> <<movie_id>>]

NoParams == [deleteFiles |-> "", addImportExclusion |-> ""]
NoCall == [active |-> FALSE, method |-> "", endpoint |-> NoEndpoint,
           params |-> NoParams, attempt |-> 0]
NoOutcome == [kind |-> "none", exc |-> "", status_code |-> 0, message |-> "",
              endpoint |-> NoEndpoint, value |-> "None"]

\* str(b).lower() of a Python bool
StrLower(b) == IF b THEN "true" ELSE "false"

\* delete_movie: the query parameters of the DELETE request
delete_params(delete_files, add_exclusion) ==
    [deleteFiles |-> StrLower(delete_files),
     addImportExclusion |-> StrLower(add_exclusion)]

\* if response.status_code < 400
IsSuccess(status_code) == status_code < 400
\* if 400 <= response.status_code < 500
IsClientError(status_code) == 400 <= status_code /\ status_code < 500
\* if response.status_code >= 500
IsServerError(status_code) == status_code >= 500
\* a slip: the last attempt sleeps and "retries" as well
MayRetryOnLast(attempt) == attempt < max_retries
\* if attempt < self.max_retries - 1
MayRetry(attempt) == attempt < max_retries - 1

Return(v) == [kind |-> "return", exc |-> "", status_code |-> 0, message |-> "",
              endpoint |-> NoEndpoint, value |-> v]
\* an exception that is not a RadarrAPIError leaves _request
Raise(e) == [kind |-> "raise", exc |-> e, status_code |-> 0, message |-> "",
             endpoint |-> NoEndpoint, value |-> "None"]
RadarrAPIError(status_code, message, endpoint) ==
    [kind |-> "raise", exc |-> "RadarrAPIError", status_code |-> status_code,
     message |-> message, endpoint |-> endpoint, value |-> "None"]

\* what an attempt got: an answer below 400, a 4xx, a 5xx, one of the two
\* exceptions that are retried, or another exception
Got(r) ==
    IF r.kind = "response"
    THEN (IF IsSuccess(r.status_code) THEN "ok"
          ELSE IF IsClientError(r.status_code) THEN "4xx" ELSE "5xx")
    ELSE IF r.kind \in Retried THEN "network" ELSE "other"

\* the events of a call: requests.request(...) and time.sleep(secs)
Request(r) == [ev |-> "request", secs |-> 0, got |-> Got(r)]
Sleep(secs) == [ev |-> "sleep", secs |-> secs, got |-> ""]

\* the result of a response with status < 400 (lines 81-85)
SuccessResult(r) ==
    IF r.status_code = 204 \/ r.body = "empty" THEN Return("None")
    ELSE IF r.body = "text" THEN Raise("ValueError")
    ELSE Return(r.body)

\* the exception of a 4xx response (lines 88-95): error_data.get fails on a
\* JSON body that is not an object; a body that is not JSON keeps response.text
ClientErrorResult(r, endpoint) ==
    IF r.body = "array" THEN Raise("AttributeError")
    ELSE RadarrAPIError(r.status_code, "response", endpoint)

\* a slip: the 5xx status code is lost when the retries are used up
ExhaustedResultNoStatus(r, endpoint) ==
    RadarrAPIError(0, "Connection error after retries", endpoint)
\* the error raised once the retries are used up (lines 102-106, 112-116)
ExhaustedResult(r, endpoint) ==
    IF r.kind = "response"
    THEN RadarrAPIError(r.status_code, "Server error after retries", endpoint)
    ELSE RadarrAPIError(0, "Connection error after retries", endpoint)

\* a slip: the attempt counter is an attribute of the client and is not
\* reset when a call is entered, so that the call after one that used up
\* its attempts starts at the last attempt
StartCallSharedCounter(method, endpoint, params) ==
    /\ call' = [active |-> TRUE, method |-> method, endpoint |-> endpoint,
                params |-> params,
                attempt |-> IF callLog # <<>> /\ callLog[Len(callLog)] = "raised"
                            THEN max_retries - 1 ELSE 0]
    /\ resp' = NoResponse
    /\ trace' = <<>>
    /\ outcome' = NoOutcome

\* self._request(method, endpoint, params) is entered
StartCall(method, endpoint, params) ==
    /\ call' = [active |-> TRUE, method |-> method, endpoint |-> endpoint,
                params |-> params, attempt |-> 0]
    /\ resp' = NoResponse
    /\ trace' = <<>>
    /\ outcome' = NoOutcome

\* the call ends: it returns or raises
EndCall(o) ==
    /\ call' = [call EXCEPT !.active = FALSE]
    /\ outcome' = o

\* a 5xx answer, a ConnectionError or a Timeout: sleep and go round again,
\* or raise at the last attempt
RetryOrRaise(r) ==
    IF MayRetry(call.attempt)
    THEN /\ trace' = trace \o <<Request(r), Sleep(retry_delays[call.attempt + 1])>>
         /\ call' = [call EXCEPT !.attempt = @ + 1]
         /\ outcome' = outcome
    ELSE /\ trace' = Append(trace, Request(r))
         /\ EndCall(ExhaustedResult(r, call.endpoint))

\* the body of the loop of _request for the response or exception r
Attempt(r) ==
    /\ resp' = r
    /\ deleteLog' = IF call.method = "DELETE"
                    THEN deleteLog \cup {[endpoint |-> call.endpoint,
                                          params |-> call.params]}
                    ELSE deleteLog
    /\ \/ /\ r.kind = "response" /\ IsSuccess(r.status_code)
          /\ trace' = Append(trace, Request(r))
          /\ EndCall(SuccessResult(r))
       \/ /\ r.kind = "response" /\ ~IsSuccess(r.status_code)
          /\ IsClientError(r.status_code)
          /\ trace' = Append(trace, Request(r))
          /\ EndCall(ClientErrorResult(r, call.endpoint))
       \/ /\ r.kind = "response" /\ ~IsSuccess(r.status_code)
          /\ ~IsClientError(r.status_code) /\ IsServerError(r.status_code)
          /\ RetryOrRaise(r)
       \/ /\ r.kind \in Retried
          /\ RetryOrRaise(r)
       \/ /\ r.kind \notin Retried /\ r.kind # "response"
          /\ trace' = Append(trace, Request(r))
          /\ EndCall(Raise(r.kind))

\* One iteration of the loop of _request: the HTTP request, then what the
\* code does with the response or the exception.
RequestAttempt ==
    /\ call.active
    /\ call.attempt < max_retries
    /\ \E r \in Responses : Attempt(r)
    /\ UNCHANGED <<top, pc, args>>
    /\ UNCHANGED cmdVars
    /\ UNCHANGED deleterVars
    /\ UNCHANGED libVars

\* the caller has consumed the result: the locals of _request are gone
ForgetCall ==
    /\ call' = NoCall
    /\ resp' = NoResponse
    /\ trace' = <<>>
    /\ outcome' = NoOutcome

(***************************************************************************)
(* Movie records.                                                          *)
(***************************************************************************)
Movie(id, title, genres, size) ==
    [id |-> id, title |-> title, genres |-> genres, sizeOnDisk |-> size]

\* raw records as the server sends them (any key may be absent)
RawMovies ==
    { Movie(Some(1), Some("Saw"), Some(<<"Horror">>), Some(2)),
      Movie(Some(2), Some("Saw"), Some(<<"Sci-Fi", "horror">>), Some(1)),
      Movie(Some(0), Some("Zero"), Some(<<"HORROR">>), Some(1)),
      Movie(None, None, Some(<<"Horror", "Comedy">>), None),
      Movie(Some(4), Some("Raw"), None, None) }

\* lists of at most n distinct elements of S
RECURSIVE ListsUpTo(_, _)
ListsUpTo(S, n) ==
    IF n = 0 THEN {<<>>}
    ELSE LET shorter == ListsUpTo(S, n - 1)
         IN shorter \cup
            {Append(l, e) : l \in {x \in shorter : Len(x) = n - 1},
                            e \in S}

Distinct(l) == \A a, b \in 1..Len(l) : a # b => l[a] # l[b]
Catalogs == {l \in ListsUpTo(RawMovies, MaxMovies) : Distinct(l)}

(***************************************************************************)
(* scanner.py                                                              *)
(***************************************************************************)
\* raw_movie.get(key, default)
Get(o, default) == IF o = None THEN default ELSE Val(o)

\* MovieScanner.scan on the parsed list: id stays None when absent, every
\* other absent field takes its default
scan(raw_movies) ==
    [k \in 1..Len(raw_movies) |->
        Movie(raw_movies[k].id,
              Some(Get(raw_movies[k].title, "Unknown")),
              Some(Get(raw_movies[k].genres, <<>>)),
              Some(Get(raw_movies[k].sizeOnDisk, 0)))]

(***************************************************************************)
(* filter.py                                                               *)
(***************************************************************************)
\* str.lower() on the strings of the model
Lower(s) ==
    CASE s \in {"Horror", "HORROR", "horror"} -> "horror"
      [] s \in {"Comedy", "comedy"} -> "comedy"
      [] s \in {"Sci-Fi", "sci-fi"} -> "sci-fi"
      [] s \in {"Saw", "SAW", "saw"} -> "saw"
      [] s \in {"Zero", "zero"} -> "zero"
      [] s \in {"Raw", "raw"} -> "raw"
      [] s \in {"Unknown", "unknown"} -> "unknown"
      [] OTHER -> s

\* GenreFilter(genre).filter(movies)
GenreMatches(genre, movie) ==
    LET genres == Get(movie.genres, <<>>)
    IN  /\ genres # <<>>
        /\ \E k \in 1..Len(genres) : Lower(genres[k]) = Lower(genre)

filter(genre, ms) ==
    SelectSeqIdx(ms, [k \in 1..Len(ms) |-> GenreMatches(genre, ms[k])], 1)

\* a slip: the target genre is kept as given
genre_as_given(g) == g
\* GenreFilter.__init__: self.genre = genre.lower()
genre_lower(g) == Lower(g)

\* one iteration of the loop of filter: `if not genres: continue`, then
\* self.genre in [g.lower() for g in genres]
in_movie_genres(target, movie) ==
    LET genres == Get(movie.genres, <<>>)
    IN  /\ genres # <<>>
        /\ \E k \in 1..Len(genres) : Lower(genres[k]) = target

\* sum(movie.get('sizeOnDisk', 0) for movie in movies)
RECURSIVE sum_sizes(_)
sum_sizes(ms) ==
    IF ms = <<>> THEN 0
    ELSE Get(Head(ms).sizeOnDisk, 0) + sum_sizes(Tail(ms))

\* a slip: the two sizes are taken from the wrong lists
get_statistics_swapped(ms, fl) ==
    [total_count |-> Len(ms), filtered_count |-> Len(fl),
     total_size_bytes |-> sum_sizes(fl), filtered_size_bytes |-> sum_sizes(ms)]
\* GenreFilter.get_statistics(movies, filtered_movies)
get_statistics(ms, fl) ==
    [total_count |-> Len(ms), filtered_count |-> Len(fl),
     total_size_bytes |-> sum_sizes(ms), filtered_size_bytes |-> sum_sizes(fl)]

(***************************************************************************)
(* keep_list.py                                                            *)
(***************************************************************************)
Kept(id, title) == [id |-> id, title |-> title, added_at |-> "t"]

AbsentFile == [kind |-> "absent", movies |-> <<>>]
JsonFile(records) == [kind |-> "object", movies |-> records]
\* a JSON object that has no "movies" key
NoMoviesKey == [kind |-> "no_movies_key", movies |-> <<>>]
\* a file json.load rejects (JSONDecodeError), a file open() or read() fails
\* on (IOError), a file whose JSON value is not an object (an array, null, a
\* number), and a file whose bytes are not UTF-8 (UTF-16 with a BOM)
Malformed == [kind |-> "malformed", movies |-> <<>>]
Unreadable == [kind |-> "unreadable", movies |-> <<>>]
NotAnObject == [kind |-> "not_object", movies |-> <<>>]
NotUtf8 == [kind |-> "not_utf8", movies |-> <<>>]

\* KeepListManager.load: the records of the file, [] when it does not exist,
\* is no JSON or cannot be read; data.get('movies', []) when the key is absent
load(file) == IF file.kind = "object" THEN file.movies ELSE <<>>

\* the exceptions load does not catch: data.get on a value that is no dict,
\* and the decoding error of f.read() (a ValueError, no JSONDecodeError)
load_raises(file) ==
    CASE file.kind = "not_object" -> "AttributeError"
      [] file.kind = "not_utf8" -> "UnicodeDecodeError"
      [] OTHER -> ""

\* a slip: the file is left as it was
save_skipped(file, records) == file
\* KeepListManager.save: open(file_path, 'w') replaces the file by
\* {'version': 1, 'movies': self.movies}; json writes and reads back the
\* int, str and null values of a record and the order of the array as they
\* are, and load does not read 'version'
save(file, records) == JsonFile(records)

\* any(movie['id'] == movie_id for movie in self.movies)
has_id(keep, movie_id) == \E k \in 1..Len(keep) : keep[k].id = movie_id
\* any(movie['title'].lower() == title_lower for movie in self.movies)
has_title(keep, title) ==
    \E k \in 1..Len(keep) : Lower(keep[k].title) = Lower(title)

\* a slip: the new record is put in front of the list
add_front(keep, movie_id, title, stamp) ==
    IF \E k \in 1..Len(keep) : keep[k].id = movie_id THEN keep
    ELSE <<[id |-> movie_id, title |-> title, added_at |-> stamp]>> \o keep
\* a slip: the record is appended without the check for a known id
add_unchecked(keep, movie_id, title, stamp) ==
    Append(keep, [id |-> movie_id, title |-> title, added_at |-> stamp])
\* a slip: the record of a known id is replaced by the new one
add_replacing(keep, movie_id, title, stamp) ==
    SelectSeqIdx(keep, [k \in 1..Len(keep) |-> keep[k].id # movie_id], 1)
    \o <<[id |-> movie_id, title |-> title, added_at |-> stamp]>>
\* KeepListManager.add: self.movies after the call
add(keep, movie_id, title, stamp) ==
    IF has_id(keep, movie_id) THEN keep
    ELSE Append(keep, [id |-> movie_id, title |-> title, added_at |-> stamp])

\* a slip: the title is consulted although an id is given
remove_title_first(keep, movie_id, title) ==
    IF title # None
    THEN SelectSeqIdx(keep, [k \in 1..Len(keep) |->
                                Lower(keep[k].title) # Lower(Val(title))], 1)
    ELSE IF movie_id # None
    THEN SelectSeqIdx(keep, [k \in 1..Len(keep) |-> keep[k].id # movie_id], 1)
    ELSE keep
\* KeepListManager.remove: self.movies after the list comprehension
remove(keep, movie_id, title) ==
    IF movie_id # None
    THEN SelectSeqIdx(keep, [k \in 1..Len(keep) |-> keep[k].id # movie_id], 1)
    ELSE IF title # None
    THEN SelectSeqIdx(keep, [k \in 1..Len(keep) |->
                                Lower(keep[k].title) # Lower(Val(title))], 1)
    ELSE keep

\* a slip: the title is checked before the id
is_kept_title_first(keep, movie_id, title) ==
    IF title # None THEN has_title(keep, Val(title))
    ELSE IF movie_id # None THEN has_id(keep, movie_id)
    ELSE FALSE
\* KeepListManager.is_kept(movie_id, title)
is_kept(keep, movie_id, title) ==
    IF movie_id # None THEN has_id(keep, movie_id)
    ELSE IF title # None THEN has_title(keep, Val(title))
    ELSE FALSE

\* a slip: nothing is filtered out
filter_kept_nothing(keep, ms) == ms
\* KeepListManager.filter_kept(movies)
kept_ids(keep) == {keep[k].id : k \in 1..Len(keep)}
filter_kept(keep, ms) ==
    SelectSeqIdx(ms, [k \in 1..Len(ms) |-> ms[k].id \notin kept_ids(keep)], 1)

(***************************************************************************)
(* deleter.py                                                              *)
(***************************************************************************)
NoResults == [deleted |-> <<>>, failed |-> <<>>, skipped |-> <<>>]

\* `not movie_id`: None and 0 are both falsy
Falsy(movie_id) == movie_id = None \/ movie_id = Some(0)

\* movie.get('title', 'Unknown Title')
TitleOf(movie) == Get(movie.title, "Unknown Title")

\* a slip: the inversion forgotten
DeleteFilesSame(keepFiles) == keepFiles
\* delete_files = not keep_files
DeleteFiles(keepFiles) == ~keepFiles

\* MovieDeleter.delete_movies is entered
EnterDeleteMovies(ms, keepFiles, dryRun) ==
    /\ movies' = ms
    /\ keep_files' = keepFiles
    /\ dry_run' = dryRun
    /\ idx' = 1
    /\ results' = NoResults
    /\ callLog' = <<>>
    /\ pc' = "delete_movies"

\* one iteration of `for movie in movies` up to the delete call
DeleteMoviesStep ==
    /\ pc = "delete_movies"
    /\ idx <= Len(movies)
    /\ LET movie == movies[idx]
       IN  \/ /\ Falsy(movie.id)
              /\ results' = [results EXCEPT !.failed = Append(@, TitleOf(movie))]
              /\ callLog' = Append(callLog, "not called")
              /\ idx' = idx + 1
              /\ UNCHANGED <<pc, call, resp, trace, outcome>>
           \/ /\ ~Falsy(movie.id) /\ dry_run
              /\ results' = [results EXCEPT !.deleted = Append(@, TitleOf(movie))]
              /\ callLog' = Append(callLog, "simulated")
              /\ idx' = idx + 1
              /\ UNCHANGED <<pc, call, resp, trace, outcome>>
           \/ /\ ~Falsy(movie.id) /\ ~dry_run
              /\ StartCall("DELETE", MovieEndpoint(Val(movie.id)),
                           delete_params(DeleteFiles(keep_files), TRUE))
              /\ pc' = "delete_movie"
              /\ UNCHANGED <<idx, results, callLog>>
    /\ UNCHANGED <<top, args, deleteLog, movies, keep_files, dry_run>>
    /\ UNCHANGED cmdVars
    /\ UNCHANGED libVars

\* a slip: after the except clause the title is appended to deleted as well
DeleteMovieDoneFallsThrough ==
    /\ pc = "delete_movie"
    /\ ~call.active
    /\ LET movie == movies[idx]
       IN  results' = IF outcome.kind = "return"
                      THEN [results EXCEPT !.deleted = Append(@, TitleOf(movie))]
                      ELSE [results EXCEPT !.failed = Append(@, TitleOf(movie)),
                                           !.deleted = Append(@, TitleOf(movie))]
    /\ callLog' = Append(callLog, IF outcome.kind = "return" THEN "returned"
                                   ELSE "raised")
    /\ idx' = idx + 1
    /\ pc' = "delete_movies"
    /\ call' = NoCall
    /\ resp' = NoResponse
    /\ trace' = <<>>
    /\ outcome' = NoOutcome
    /\ UNCHANGED <<top, args, deleteLog, movies, keep_files, dry_run>>
    /\ UNCHANGED cmdVars
    /\ UNCHANGED libVars

\* client.delete_movie has returned or raised: both except clauses record
\* the title under failed
DeleteMovieDone ==
    /\ pc = "delete_movie"
    /\ ~call.active
    /\ LET movie == movies[idx]
       IN  results' = IF outcome.kind = "return"
                      THEN [results EXCEPT !.deleted = Append(@, TitleOf(movie))]
                      ELSE [results EXCEPT !.failed = Append(@, TitleOf(movie))]
    /\ callLog' = Append(callLog, IF outcome.kind = "return" THEN "returned"
                                   ELSE "raised")
    /\ idx' = idx + 1
    /\ pc' = "delete_movies"
    /\ ForgetCall
    /\ UNCHANGED <<top, args, deleteLog, movies, keep_files, dry_run>>
    /\ UNCHANGED cmdVars
    /\ UNCHANGED libVars

\* the loop is over (or the list was empty): delete_movies returns results
DeleteMoviesReturn ==
    /\ pc = "delete_movies"
    /\ idx > Len(movies)
    /\ pc' = "returned"
    /\ UNCHANGED <<top, args, idx, results, callLog, movies, keep_files, dry_run>>
    /\ UNCHANGED clientVars
    /\ UNCHANGED cmdVars
    /\ UNCHANGED libVars

(***************************************************************************)
(* Direct calls of the client and of the deleter.                          *)
(***************************************************************************)
ClientOps ==
    [op : {"test_connection", "get_movies", "get_exclusions"},
     movie_id : {0}, delete_files : {TRUE}, add_exclusion : {TRUE}]
    \cup [op : {"delete_movie"}, movie_id : {1, 2},
          delete_files : BOOLEAN, add_exclusion : BOOLEAN]

\* RadarrClient.test_connection / get_movies / delete_movie / get_exclusions
ClientCall ==
    /\ top = "client"
    /\ pc = "client_call"
    /\ \/ /\ args.op = "test_connection"
          /\ StartCall("GET", SystemStatus, NoParams)
       \/ /\ args.op = "get_movies"
          /\ StartCall("GET", MovieList, NoParams)
       \/ /\ args.op = "get_exclusions"
          /\ StartCall("GET", Exclusions, NoParams)
       \/ /\ args.op = "delete_movie"
          /\ StartCall("DELETE", MovieEndpoint(args.movie_id),
                       delete_params(args.delete_files, args.add_exclusion))
    /\ pc' = "client_wait"
    /\ UNCHANGED <<top, args, deleteLog>>
    /\ UNCHANGED cmdVars
    /\ UNCHANGED deleterVars
    /\ UNCHANGED libVars

\* the operation hands the result of _request to its caller
ClientReturn ==
    /\ top = "client"
    /\ pc = "client_wait"
    /\ ~call.active
    /\ pc' = "done"
    /\ UNCHANGED <<top, args>>
    /\ UNCHANGED clientVars
    /\ UNCHANGED cmdVars
    /\ UNCHANGED deleterVars
    /\ UNCHANGED libVars

IdleClient ==
    /\ call = NoCall
    /\ resp = NoResponse
    /\ trace = <<>>
    /\ outcome = NoOutcome
    /\ deleteLog = {}

IdleCmd ==
    /\ all_movies = <<>>
    /\ filtered_movies = <<>>
    /\ kept_movies = <<>>
    /\ keepFile = AbsentFile
    /\ keepList = None
    /\ confirmation = "not_asked"
    /\ exitCode = None

IdleDeleter ==
    /\ movies = <<>>
    /\ keep_files = FALSE
    /\ dry_run = FALSE
    /\ idx = 1
    /\ results = NoResults
    /\ callLog = <<>>

\* no call of the store or of the genre filter yet
NoStoreOp ==
    [op |-> "", movie_id |-> None, title |-> None, entries |-> <<>>,
     returned |-> None, raised |-> "", saved |-> FALSE,
     before |-> <<>>, fileBefore |-> AbsentFile]

\* no exception has ended the command
NotRaised == [how |-> "none", exc |-> "", status_code |-> 0,
              endpoint |-> NoEndpoint]
\* the except clause of the command caught the exception of this outcome
Caught(o) == [how |-> "caught", exc |-> o.exc, status_code |-> o.status_code,
              endpoint |-> o.endpoint]
\* no except clause of the command matches: the exception leaves main()
Uncaught(e) == [how |-> "uncaught", exc |-> e, status_code |-> 0,
                endpoint |-> NoEndpoint]
NotAsked == [asked |-> FALSE, cancelled |-> FALSE, selected |-> <<>>]
NoProc == [pc |-> "", movies |-> <<>>, id |-> None, title |-> ""]
NoProcs == [p \in {1, 2} |-> NoProc]

IdleRun ==
    /\ raised = NotRaised
    /\ selection = NotAsked
    /\ procs = NoProcs
    /\ events = <<>>
    /\ server = <<>>

IdleLib ==
    /\ now = "t"
    /\ storeOp = NoStoreOp
    /\ self_genre = ""
    /\ stats = None
    /\ IdleRun

InitClient ==
    /\ top = "client"
    /\ pc = "client_call"
    /\ args \in ClientOps
    /\ IdleClient
    /\ IdleCmd
    /\ IdleDeleter
    /\ IdleLib

NextClient == ClientCall \/ RequestAttempt \/ ClientReturn

SpecClient == InitClient /\ [][NextClient]_vars

InitDeleter ==
    /\ top = "delete_movies"
    /\ pc = "delete_movies"
    /\ args = [op |-> "delete_movies"]
    /\ IdleClient
    /\ IdleCmd
    /\ movies \in Catalogs
    /\ keep_files \in BOOLEAN
    /\ dry_run \in BOOLEAN
    /\ idx = 1
    /\ results = NoResults
    /\ callLog = <<>>
    /\ IdleLib

NextDeleter ==
    DeleteMoviesStep \/ RequestAttempt \/ DeleteMovieDone \/ DeleteMoviesReturn

SpecDeleter == InitDeleter /\ [][NextDeleter]_vars

\* the interpreter runs the loop on: a step that can be taken is taken
SpecDeleterFair == SpecDeleter /\ WF_vars(NextDeleter)

(***************************************************************************)
(* Direct calls of the keep-list store (KeepListManager).                  *)
(***************************************************************************)
\* ids and titles the callers pass; an id may be None
StoreIds == {None, Some(1), Some(2)}
StoreTitles == {"Saw", "SAW", "Raw"}

\* the keep-list files a store may be constructed from
StoreFiles ==
    { AbsentFile, NoMoviesKey, Malformed, Unreadable, NotAnObject, NotUtf8,
      JsonFile(<<>>),
      JsonFile(<<Kept(Some(2), "Saw"), Kept(Some(1), "Raw")>>),
      JsonFile(<<Kept(Some(1), "Saw"), Kept(Some(1), "Raw")>>) }

\* the lists handed to filter_kept: entries with and without an id
StoreEntries ==
    {l \in ListsUpTo({ Movie(Some(1), Some("Saw"), Some(<<"Horror">>), Some(2)),
                       Movie(Some(2), Some("Raw"), None, None),
                       Movie(None, None, Some(<<"Horror">>), None) },
                     MaxMovies) : Distinct(l)}

\* a call of the store with its arguments, its result and the state it found
StoreOp(op, movie_id, title, returned, saved) ==
    [op |-> op, movie_id |-> movie_id, title |-> title, entries |-> <<>>,
     returned |-> returned, raised |-> "", saved |-> saved,
     before |-> Val(keepList), fileBefore |-> keepFile]

\* datetime.now() moves on between two records
Tick(t) == t \o "+"
Adds == Len(now) - 1

StoreFrame ==
    /\ UNCHANGED <<top, args, all_movies, filtered_movies, kept_movies,
                   confirmation, exitCode, self_genre, stats>>
    /\ UNCHANGED clientVars
    /\ UNCHANGED deleterVars
    /\ UNCHANGED runVars

\* KeepListManager(file_path): self.movies = [] and self.load()
StoreConstruct ==
    /\ top = "store"
    /\ pc = "store_new"
    /\ IF load_raises(keepFile) = ""
       THEN /\ keepList' = Some(load(keepFile))
            /\ pc' = "store"
            /\ storeOp' = [NoStoreOp EXCEPT !.op = "__init__",
                                            !.fileBefore = keepFile]
       ELSE /\ keepList' = keepList
            /\ pc' = "raised"
            /\ storeOp' = [NoStoreOp EXCEPT !.op = "__init__",
                                            !.raised = load_raises(keepFile),
                                            !.fileBefore = keepFile]
    /\ UNCHANGED <<keepFile, now>>
    /\ StoreFrame

\* KeepListManager.load() on a store in use
StoreLoad ==
    /\ top = "store"
    /\ pc = "store"
    /\ load_raises(keepFile) = ""
    /\ keepList' = Some(load(keepFile))
    /\ storeOp' = StoreOp("load", None, None, None, FALSE)
    /\ UNCHANGED <<pc, keepFile, now>>
    /\ StoreFrame

\* KeepListManager.add(movie_id, title): returns at once for a known id,
\* else appends the record and saves
StoreAdd ==
    /\ top = "store"
    /\ pc = "store"
    /\ Adds < MaxAdds
    /\ \E movie_id \in StoreIds, title \in StoreTitles :
        LET keep == Val(keepList)
            after == add(keep, movie_id, title, Tick(now))
        IN  IF after = keep
            THEN /\ storeOp' = StoreOp("add", movie_id, Some(title), None, FALSE)
                 /\ UNCHANGED <<keepList, keepFile, now>>
            ELSE /\ keepList' = Some(after)
                 /\ now' = Tick(now)
                 /\ keepFile' = save(keepFile, after)
                 /\ storeOp' = StoreOp("add", movie_id, Some(title), None, TRUE)
    /\ UNCHANGED pc
    /\ StoreFrame

\* KeepListManager.remove(movie_id, title): saves and returns True when the
\* list got shorter
StoreRemove ==
    /\ top = "store"
    /\ pc = "store"
    /\ \E movie_id \in StoreIds, title \in {None} \cup {Some(t) : t \in StoreTitles} :
        LET keep == Val(keepList)
            after == remove(keep, movie_id, title)
        IN  /\ keepList' = Some(after)
            /\ IF Len(after) < Len(keep)
               THEN /\ keepFile' = save(keepFile, after)
                    /\ storeOp' = StoreOp("remove", movie_id, title, Some(TRUE), TRUE)
               ELSE /\ keepFile' = keepFile
                    /\ storeOp' = StoreOp("remove", movie_id, title, Some(FALSE), FALSE)
    /\ UNCHANGED <<pc, now>>
    /\ StoreFrame

\* KeepListManager.clear()
StoreClear ==
    /\ top = "store"
    /\ pc = "store"
    /\ keepList' = Some(<<>>)
    /\ keepFile' = save(keepFile, <<>>)
    /\ storeOp' = StoreOp("clear", None, None, None, TRUE)
    /\ UNCHANGED <<pc, now>>
    /\ StoreFrame

\* KeepListManager.is_kept(movie_id, title)
StoreIsKept ==
    /\ top = "store"
    /\ pc = "store"
    /\ \E movie_id \in StoreIds, title \in {None} \cup {Some(t) : t \in StoreTitles} :
        storeOp' = StoreOp("is_kept", movie_id, title,
                           Some(is_kept(Val(keepList), movie_id, title)), FALSE)
    /\ UNCHANGED <<pc, keepList, keepFile, now>>
    /\ StoreFrame

\* KeepListManager.filter_kept(movies)
StoreFilterKept ==
    /\ top = "store"
    /\ pc = "store"
    /\ \E entries \in StoreEntries :
        storeOp' = [StoreOp("filter_kept", None, None,
                            Some(filter_kept(Val(keepList), entries)), FALSE)
                    EXCEPT !.entries = entries]
    /\ UNCHANGED <<pc, keepList, keepFile, now>>
    /\ StoreFrame

InitStore ==
    /\ top = "store"
    /\ pc = "store_new"
    /\ args = [op |-> "keep_list"]
    /\ IdleClient
    /\ all_movies = <<>>
    /\ filtered_movies = <<>>
    /\ kept_movies = <<>>
    /\ keepFile \in StoreFiles
    /\ keepList = None
    /\ confirmation = "not_asked"
    /\ exitCode = None
    /\ IdleDeleter
    /\ IdleLib

NextStore ==
    \/ StoreConstruct
    \/ StoreLoad
    \/ StoreAdd
    \/ StoreRemove
    \/ StoreClear
    \/ StoreIsKept
    \/ StoreFilterKept

SpecStore == InitStore /\ [][NextStore]_vars

(***************************************************************************)
(* Direct calls of the genre filter (GenreFilter).                         *)
(***************************************************************************)
\* target genres in several spellings
FilterGenres == {"Horror", "HORROR", "horror", "Comedy"}

\* entries with genres in several spellings, with an empty list, without
\* the key; with a size, without one, and with a size no server sends
FilterMovies ==
    { Movie(Some(1), Some("Saw"), Some(<<"Horror", "Sci-Fi">>), Some(2)),
      Movie(Some(2), Some("Raw"), Some(<<"HORROR">>), None),
      Movie(Some(3), Some("Zero"), Some(<<>>), Some(1)),
      Movie(Some(4), Some("Unknown"), None, Some(-1)),
      Movie(Some(5), Some("Saw"), Some(<<"comedy">>), Some(3)) }

FilterLists == {l \in ListsUpTo(FilterMovies, MaxMovies) : Distinct(l)}

FilterFrame ==
    /\ UNCHANGED <<top, args, kept_movies, keepFile, keepList, confirmation,
                   exitCode, now, storeOp>>
    /\ UNCHANGED <<movies, keep_files, dry_run, results, callLog>>
    /\ UNCHANGED clientVars
    /\ UNCHANGED runVars

\* GenreFilter(genre)
GenreFilterInit ==
    /\ top = "filter"
    /\ pc = "filter_new"
    /\ self_genre' = genre_lower(args.genre)
    /\ pc' = "filter"
    /\ UNCHANGED <<all_movies, filtered_movies, idx, stats>>
    /\ FilterFrame

\* one iteration of `for movie in movies`
FilterStep ==
    /\ top = "filter"
    /\ pc = "filter"
    /\ idx <= Len(all_movies)
    /\ filtered_movies' =
          IF in_movie_genres(self_genre, all_movies[idx])
          THEN Append(filtered_movies, all_movies[idx])
          ELSE filtered_movies
    /\ idx' = idx + 1
    /\ UNCHANGED <<pc, all_movies, self_genre, stats>>
    /\ FilterFrame

\* return filtered
FilterReturn ==
    /\ top = "filter"
    /\ pc = "filter"
    /\ idx > Len(all_movies)
    /\ pc' = "filtered"
    /\ UNCHANGED <<all_movies, filtered_movies, idx, self_genre, stats>>
    /\ FilterFrame

\* get_statistics(movies, filtered_movies): with the list filter returned,
\* as cmd_scan calls it, or with any other list
GetStatistics ==
    /\ top = "filter"
    /\ pc = "filtered"
    /\ \E fl \in {filtered_movies} \cup FilterLists :
        stats' = Some([movies |-> all_movies, filtered_movies |-> fl,
                       returned |-> get_statistics(all_movies, fl)])
    /\ pc' = "done"
    /\ UNCHANGED <<all_movies, filtered_movies, idx, self_genre>>
    /\ FilterFrame

InitFilter ==
    /\ top = "filter"
    /\ pc = "filter_new"
    /\ args \in [op : {"genre_filter"}, genre : FilterGenres]
    /\ IdleClient
    /\ all_movies \in FilterLists
    /\ filtered_movies = <<>>
    /\ kept_movies = <<>>
    /\ keepFile = AbsentFile
    /\ keepList = None
    /\ confirmation = "not_asked"
    /\ exitCode = None
    /\ IdleDeleter
    /\ IdleLib

NextFilter == GenreFilterInit \/ FilterStep \/ FilterReturn \/ GetStatistics

SpecFilter == InitFilter /\ [][NextFilter]_vars

(***************************************************************************)
(* radarr_horror_filter.py: cmd_delete                                     *)
(***************************************************************************)
Genres == {"horror", "Comedy"}

DeleteArgs ==
    [op : {"delete"}, genre : Genres, execute : BOOLEAN, keep_files : BOOLEAN,
     yes : BOOLEAN, ignore_keep_list : BOOLEAN, verbose : BOOLEAN]

\* keep-list files a run may find
KeepFiles ==
    { AbsentFile, NotAnObject,
      JsonFile(<<Kept(Some(1), "Saw")>>),
      JsonFile(<<Kept(Some(2), "Saw"), Kept(Some(0), "Zero"),
                 Kept(None, "Unknown")>>) }

\* a slip: the command always executes
DryRunNever(a) == FALSE
\* dry_run = not args.execute
DryRun(a) == ~a.execute

\* get_confirmation: the prompt is skipped with --yes
NeedsPrompt(a) == ~a.yes

\* the command returns
Exit(code) ==
    /\ exitCode' = Some(code)
    /\ pc' = "done"

\* a slip: the error is reported and the command goes on to the keep list
AbortGoesOn(o) ==
    /\ raised' = Caught(o)
    /\ pc' = "keep_list"
    /\ exitCode' = exitCode
\* except RadarrAPIError / except Exception: report the error, return 1
Abort(o) ==
    /\ raised' = Caught(o)
    /\ Exit(1)

\* client.test_connection() is called
CmdDeleteStart ==
    /\ top = "cmd_delete"
    /\ pc = "cmd_delete"
    /\ StartCall("GET", SystemStatus, NoParams)
    /\ pc' = "test_connection"
    /\ UNCHANGED <<top, args, deleteLog>>
    /\ UNCHANGED cmdVars
    /\ UNCHANGED deleterVars
    /\ UNCHANGED libVars

\* test_connection is back: an exception ends the command with 1 (also the
\* AttributeError of status.get when --verbose meets a status that is no
\* object); otherwise scanner.scan() calls client.get_movies()
CmdDeleteConnected ==
    /\ top = "cmd_delete"
    /\ pc = "test_connection"
    /\ ~call.active
    /\ \/ /\ outcome.kind = "raise"
          /\ Abort(outcome)
          /\ ForgetCall
       \/ /\ outcome.kind = "return"
          /\ args.verbose /\ outcome.value # "object"
          /\ Abort(Raise("AttributeError"))
          /\ ForgetCall
       \/ /\ outcome.kind = "return"
          /\ ~(args.verbose /\ outcome.value # "object")
          /\ StartCall("GET", MovieList, NoParams)
          /\ pc' = "scan"
          /\ UNCHANGED <<exitCode, raised>>
    /\ UNCHANGED <<top, args, deleteLog, all_movies, filtered_movies,
                   kept_movies, keepFile, keepList, confirmation>>
    /\ UNCHANGED deleterVars
    /\ UNCHANGED libVarsButRaised

\* get_movies is back: scan() normalises the records, then the genre filter
CmdDeleteScanned ==
    /\ top = "cmd_delete"
    /\ pc = "scan"
    /\ ~call.active
    /\ \/ /\ outcome.kind = "raise"
          /\ Abort(outcome)
          /\ UNCHANGED <<all_movies, filtered_movies>>
       \/ /\ outcome.kind = "return" /\ outcome.value = "object"
          \* iterating a dict yields its keys: raw_movie.get raises
          /\ Abort(Raise("AttributeError"))
          /\ UNCHANGED <<all_movies, filtered_movies>>
       \/ /\ outcome.kind = "return" /\ outcome.value = "None"
          \* `if not raw_movies: return []`, then `if not all_movies: return 0`
          /\ Exit(0)
          /\ UNCHANGED <<all_movies, filtered_movies, raised>>
       \/ /\ outcome.kind = "return" /\ outcome.value = "array"
          /\ UNCHANGED raised
          /\ \E raw_movies \in Catalogs : all_movies' = scan(raw_movies)
          /\ IF all_movies' = <<>>
             THEN Exit(0) /\ UNCHANGED filtered_movies
             ELSE /\ filtered_movies' = filter(args.genre, all_movies')
                  /\ IF filtered_movies' = <<>>
                     THEN Exit(0)
                     ELSE pc' = "keep_list" /\ UNCHANGED exitCode
    /\ ForgetCall
    /\ UNCHANGED <<top, args, deleteLog, kept_movies, keepFile,
                   keepList, confirmation>>
    /\ UNCHANGED deleterVars
    /\ UNCHANGED libVarsButRaised

\* the keep-list exclusion, the display, and the choice of the mode
CmdDeleteKeepList ==
    /\ top = "cmd_delete"
    /\ pc = "keep_list"
    /\ LET keep == load(keepFile)
           kept == IF args.ignore_keep_list THEN <<>>
                   ELSE SelectSeqIdx(filtered_movies,
                            [k \in 1..Len(filtered_movies) |->
                                is_kept(keep, filtered_movies[k].id, None)], 1)
           todo == IF args.ignore_keep_list THEN filtered_movies
                   ELSE filter_kept(keep, filtered_movies)
       IN  IF ~args.ignore_keep_list /\ load_raises(keepFile) # ""
           THEN \* KeepListManager() raises: `except Exception`
                /\ Abort(Raise(load_raises(keepFile)))
                /\ UNCHANGED <<keepList, kept_movies, filtered_movies>>
                /\ UNCHANGED deleterVars
           ELSE /\ keepList' = IF args.ignore_keep_list THEN None ELSE Some(keep)
                /\ kept_movies' = kept
                /\ filtered_movies' = todo
                /\ raised' = raised
                /\ IF todo = <<>>
                   THEN Exit(0) /\ UNCHANGED deleterVars
                   ELSE IF ~DryRun(args) /\ NeedsPrompt(args)
                   THEN pc' = "confirm" /\ UNCHANGED exitCode /\ UNCHANGED deleterVars
                   ELSE /\ EnterDeleteMovies(todo, args.keep_files, DryRun(args))
                        /\ UNCHANGED exitCode
    /\ UNCHANGED <<top, args, all_movies, keepFile, confirmation>>
    /\ UNCHANGED clientVars
    /\ UNCHANGED libVarsButRaised

\* Confirm.ask("Continue?", default=False)
CmdDeleteConfirm ==
    /\ top = "cmd_delete"
    /\ pc = "confirm"
    /\ \E answer \in BOOLEAN :
        IF answer
        THEN /\ confirmation' = "accepted"
             /\ EnterDeleteMovies(filtered_movies, args.keep_files, DryRun(args))
             /\ UNCHANGED exitCode
        ELSE /\ confirmation' = "declined"
             /\ Exit(0)
             /\ UNCHANGED deleterVars
    /\ UNCHANGED <<top, args, all_movies, filtered_movies, kept_movies,
                   keepFile, keepList>>
    /\ UNCHANGED clientVars
    /\ UNCHANGED libVars

\* a slip: the command reports success whatever failed
summary_code_zero(res) == 0
\* return 0 if not results['failed'] else 1
summary_code(res) == IF res.failed = <<>> THEN 0 ELSE 1

CmdDeleteSummary ==
    /\ top = "cmd_delete"
    /\ pc = "returned"
    /\ Exit(summary_code(results))
    /\ UNCHANGED <<top, args, all_movies, filtered_movies, kept_movies,
                   keepFile, keepList, confirmation>>
    /\ UNCHANGED clientVars
    /\ UNCHANGED deleterVars
    /\ UNCHANGED libVars

Init ==
    /\ top = "cmd_delete"
    /\ pc = "cmd_delete"
    /\ args \in DeleteArgs
    /\ IdleClient
    /\ all_movies = <<>>
    /\ filtered_movies = <<>>
    /\ kept_movies = <<>>
    /\ keepFile \in KeepFiles
    /\ keepList = None
    /\ confirmation = "not_asked"
    /\ exitCode = None
    /\ IdleDeleter
    /\ IdleLib

Next ==
    \/ CmdDeleteStart
    \/ RequestAttempt
    \/ CmdDeleteConnected
    \/ CmdDeleteScanned
    \/ CmdDeleteKeepList
    \/ CmdDeleteConfirm
    \/ DeleteMoviesStep
    \/ DeleteMovieDone
    \/ DeleteMoviesReturn
    \/ CmdDeleteSummary

Spec == Init /\ [][Next]_vars

(***************************************************************************)
(* radarr_horror_filter.py: cmd_keep                                       *)
(***************************************************************************)
\* `keep add|remove [id] [--title T]`, `keep list`, `keep clear [--yes]`;
\* id is an int when given, so `keep add 0` gives args.id = 0
KeepArgs ==
    [op : {"keep"}, keep_command : {"add", "remove"},
     id : {None, Some(0), Some(1)},
     title : {None, Some("SAW"), Some("Zero")}, yes : {FALSE}]
    \cup [op : {"keep"}, keep_command : {"list"}, id : {None}, title : {None},
          yes : {FALSE}]
    \cup [op : {"keep"}, keep_command : {"clear"}, id : {None}, title : {None},
          yes : BOOLEAN]

\* `not args.title`: None and '' are both falsy
NoTitle(title) == title = None \/ title = Some("")

\* [m for m in all_movies if m.get('id') == args.id]
ById(raw_movies, movie_id) ==
    SelectSeqIdx(raw_movies,
                 [k \in 1..Len(raw_movies) |-> raw_movies[k].id = movie_id], 1)
\* [m for m in all_movies if m.get('title', '').lower() == title_lower]
ByTitle(raw_movies, title) ==
    SelectSeqIdx(raw_movies,
                 [k \in 1..Len(raw_movies) |->
                     Lower(Get(raw_movies[k].title, "")) = Lower(title)], 1)

\* an exception no except clause of the command matches
Crash(e) ==
    /\ raised' = Uncaught(e)
    /\ pc' = "done"
    /\ exitCode' = exitCode

KeepFrame ==
    /\ UNCHANGED <<top, args, filtered_movies, kept_movies, self_genre, stats,
                   selection, procs, events, server>>
    /\ UNCHANGED deleterVars

\* keep_list = KeepListManager(), outside any try
CmdKeepStart ==
    /\ top = "cmd_keep"
    /\ pc = "cmd_keep"
    /\ storeOp' = [NoStoreOp EXCEPT !.op = "__init__",
                                    !.raised = load_raises(keepFile),
                                    !.fileBefore = keepFile]
    /\ IF load_raises(keepFile) # ""
       THEN /\ Crash(load_raises(keepFile))
            /\ keepList' = keepList
       ELSE /\ keepList' = Some(load(keepFile))
            /\ pc' = args.keep_command
            /\ UNCHANGED <<raised, exitCode>>
    /\ UNCHANGED <<keepFile, now, confirmation, all_movies>>
    /\ UNCHANGED clientVars
    /\ KeepFrame

\* keep add: the check of the arguments, then client.get_movies()
CmdKeepAdd ==
    /\ top = "cmd_keep"
    /\ pc = "add"
    /\ IF Falsy(args.id) /\ NoTitle(args.title)
       THEN /\ Exit(1)
            /\ UNCHANGED <<call, resp, trace, outcome>>
       ELSE /\ StartCall("GET", MovieList, NoParams)
            /\ pc' = "get_movies"
            /\ exitCode' = exitCode
    /\ UNCHANGED <<deleteLog, keepFile, keepList, now, storeOp, confirmation,
                   all_movies, raised>>
    /\ KeepFrame

\* get_movies is back: only RadarrAPIError is caught; the entry is looked
\* up by id or by title and added unless its id is kept
CmdKeepAddFound ==
    /\ top = "cmd_keep"
    /\ pc = "get_movies"
    /\ ~call.active
    /\ \/ /\ outcome.kind = "raise" /\ outcome.exc = "RadarrAPIError"
          /\ Abort(outcome)
          /\ UNCHANGED <<all_movies, keepList, keepFile, now, storeOp>>
       \/ /\ outcome.kind = "raise" /\ outcome.exc # "RadarrAPIError"
          /\ Crash(outcome.exc)
          /\ UNCHANGED <<all_movies, keepList, keepFile, now, storeOp>>
       \/ /\ outcome.kind = "return" /\ outcome.value = "None"
          \* `for m in all_movies` on None
          /\ Crash("TypeError")
          /\ UNCHANGED <<all_movies, keepList, keepFile, now, storeOp>>
       \/ /\ outcome.kind = "return" /\ outcome.value = "object"
          \* iterating a dict yields its keys: m.get raises
          /\ Crash("AttributeError")
          /\ UNCHANGED <<all_movies, keepList, keepFile, now, storeOp>>
       \/ /\ outcome.kind = "return" /\ outcome.value = "array"
          /\ all_movies' = server
          /\ LET keep == Val(keepList)
                 matches == IF ~Falsy(args.id) THEN ById(server, args.id)
                            ELSE ByTitle(server, Val(args.title))
                 movie == matches[1]
                 after == add(keep, movie.id, Val(movie.title), Tick(now))
             IN  IF matches = <<>>
                 THEN /\ Exit(1)
                      /\ UNCHANGED <<raised, keepList, keepFile, now, storeOp>>
                 ELSE IF Falsy(args.id) /\ Len(matches) > 1
                 THEN \* the matches are listed with m['id'] and m['title']
                      /\ IF \E k \in 1..Len(matches) : matches[k].id = None
                         THEN Crash("KeyError")
                         ELSE Exit(1) /\ UNCHANGED raised
                      /\ UNCHANGED <<keepList, keepFile, now, storeOp>>
                 ELSE IF movie.id = None \/ movie.title = None
                 THEN \* movie['id'], movie['title']
                      /\ Crash("KeyError")
                      /\ UNCHANGED <<keepList, keepFile, now, storeOp>>
                 ELSE IF is_kept(keep, movie.id, None)
                 THEN /\ Exit(0)
                      /\ storeOp' = StoreOp("is_kept", movie.id, None,
                                            Some(TRUE), FALSE)
                      /\ UNCHANGED <<raised, keepList, keepFile, now>>
                 ELSE /\ Exit(0)
                      /\ keepList' = Some(after)
                      /\ now' = Tick(now)
                      /\ keepFile' = save(keepFile, after)
                      /\ storeOp' = StoreOp("add", movie.id, movie.title,
                                            None, TRUE)
                      /\ UNCHANGED raised
    /\ UNCHANGED confirmation
    /\ UNCHANGED clientVars
    /\ KeepFrame

\* keep remove: by id when args.id is truthy, else by title
CmdKeepRemove ==
    /\ top = "cmd_keep"
    /\ pc = "remove"
    /\ IF Falsy(args.id) /\ NoTitle(args.title)
       THEN /\ Exit(1)
            /\ UNCHANGED <<keepList, keepFile, storeOp>>
       ELSE LET keep == Val(keepList)
                movie_id == IF ~Falsy(args.id) THEN args.id ELSE None
                title == IF ~Falsy(args.id) THEN None ELSE args.title
                after == remove(keep, movie_id, title)
            IN  /\ Exit(0)
                /\ keepList' = Some(after)
                /\ IF Len(after) < Len(keep)
                   THEN /\ keepFile' = save(keepFile, after)
                        /\ storeOp' = StoreOp("remove", movie_id, title,
                                              Some(TRUE), TRUE)
                   ELSE /\ keepFile' = keepFile
                        /\ storeOp' = StoreOp("remove", movie_id, title,
                                              Some(FALSE), FALSE)
    /\ UNCHANGED <<now, confirmation, all_movies, raised>>
    /\ UNCHANGED clientVars
    /\ KeepFrame

\* keep list: the table of keep_list.list_all()
CmdKeepList ==
    /\ top = "cmd_keep"
    /\ pc = "list"
    /\ Exit(0)
    /\ UNCHANGED <<keepList, keepFile, storeOp, now, confirmation, all_movies,
                   raised>>
    /\ UNCHANGED clientVars
    /\ KeepFrame

\* keep clear: nothing to do for an empty list; the prompt unless --yes
CmdKeepClear ==
    /\ top = "cmd_keep"
    /\ pc = "clear"
    /\ IF Val(keepList) = <<>>
       THEN /\ Exit(0)
            /\ UNCHANGED <<keepList, keepFile, storeOp>>
       ELSE IF ~args.yes
       THEN /\ pc' = "confirm_clear"
            /\ UNCHANGED <<exitCode, keepList, keepFile, storeOp>>
       ELSE /\ Exit(0)
            /\ keepList' = Some(<<>>)
            /\ keepFile' = save(keepFile, <<>>)
            /\ storeOp' = StoreOp("clear", None, None, None, TRUE)
    /\ UNCHANGED <<now, confirmation, all_movies, raised>>
    /\ UNCHANGED clientVars
    /\ KeepFrame

\* Confirm.ask("Are you sure ...", default=False)
CmdKeepClearConfirm ==
    /\ top = "cmd_keep"
    /\ pc = "confirm_clear"
    /\ \E answer \in BOOLEAN :
        IF answer
        THEN /\ confirmation' = "accepted"
             /\ keepList' = Some(<<>>)
             /\ keepFile' = save(keepFile, <<>>)
             /\ storeOp' = StoreOp("clear", None, None, None, TRUE)
        ELSE /\ confirmation' = "declined"
             /\ UNCHANGED <<keepList, keepFile, storeOp>>
    /\ Exit(0)
    /\ UNCHANGED <<now, all_movies, raised>>
    /\ UNCHANGED clientVars
    /\ KeepFrame

InitKeep ==
    /\ top = "cmd_keep"
    /\ pc = "cmd_keep"
    /\ args \in KeepArgs
    /\ IdleClient
    /\ all_movies = <<>>
    /\ filtered_movies = <<>>
    /\ kept_movies = <<>>
    /\ keepFile \in KeepFiles
    /\ keepList = None
    /\ confirmation = "not_asked"
    /\ exitCode = None
    /\ IdleDeleter
    /\ now = "t"
    /\ storeOp = NoStoreOp
    /\ self_genre = ""
    /\ stats = None
    /\ raised = NotRaised
    /\ selection = NotAsked
    /\ procs = NoProcs
    /\ events = <<>>
    /\ server \in Catalogs

NextKeep ==
    \/ CmdKeepStart
    \/ CmdKeepAdd
    \/ RequestAttempt
    \/ CmdKeepAddFound
    \/ CmdKeepRemove
    \/ CmdKeepList
    \/ CmdKeepClear
    \/ CmdKeepClearConfirm

SpecKeep == InitKeep /\ [][NextKeep]_vars

(***************************************************************************)
(* radarr_horror_filter.py: cmd_scan and interactive_keep_selection        *)
(***************************************************************************)
\* `scan --genre G [--interactive] [--verbose]`; questionary_available is
\* the module flag QUESTIONARY_AVAILABLE set by the import at start-up
ScanArgs ==
    [op : {"scan"}, genre : Genres, interactive : BOOLEAN, verbose : BOOLEAN,
     questionary_available : BOOLEAN]

\* a slip: a cancelled prompt counts as every choice selected
newly_selected_all(keep, ms, selected) ==
    LET chosen == IF selected = None THEN ms ELSE Val(selected)
    IN  SelectSeqIdx(chosen, [k \in 1..Len(chosen) |->
                                 ~is_kept(keep, chosen[k].id, None)], 1)
\* interactive_keep_selection after the prompt: [] when .ask() returned None
\* (the user cancelled), else the selected entries whose id is not kept
newly_selected(keep, ms, selected) ==
    IF selected = None THEN <<>>
    ELSE SelectSeqIdx(Val(selected),
                      [k \in 1..Len(Val(selected)) |->
                          ~is_kept(keep, Val(selected)[k].id, None)], 1)

\* for movie in newly_kept: keep_list.add(movie['id'], movie['title']);
\* st holds self.movies and the clock
RECURSIVE add_each(_, _)
add_each(st, ms) ==
    IF ms = <<>> THEN st
    ELSE LET after == add(st.movies, Head(ms).id, Val(Head(ms).title),
                          Tick(st.now))
         IN  add_each(IF after = st.movies THEN st
                      ELSE [movies |-> after, now |-> Tick(st.now)],
                      Tail(ms))

ScanFrame ==
    /\ UNCHANGED <<top, args, deleteLog, confirmation, self_genre, procs,
                   events, server>>
    /\ UNCHANGED deleterVars

\* client.test_connection() is called
CmdScanStart ==
    /\ top = "cmd_scan"
    /\ pc = "cmd_scan"
    /\ StartCall("GET", SystemStatus, NoParams)
    /\ pc' = "test_connection"
    /\ UNCHANGED <<all_movies, filtered_movies, kept_movies, keepFile,
                   keepList, exitCode, now, storeOp, stats, raised, selection>>
    /\ ScanFrame

\* test_connection is back: as in cmd_delete
CmdScanConnected ==
    /\ top = "cmd_scan"
    /\ pc = "test_connection"
    /\ ~call.active
    /\ \/ /\ outcome.kind = "raise"
          /\ Abort(outcome)
          /\ ForgetCall
       \/ /\ outcome.kind = "return"
          /\ args.verbose /\ outcome.value # "object"
          /\ Abort(Raise("AttributeError"))
          /\ ForgetCall
       \/ /\ outcome.kind = "return"
          /\ ~(args.verbose /\ outcome.value # "object")
          /\ StartCall("GET", MovieList, NoParams)
          /\ pc' = "scan"
          /\ UNCHANGED <<exitCode, raised>>
    /\ UNCHANGED <<all_movies, filtered_movies, kept_movies, keepFile,
                   keepList, now, storeOp, stats, selection>>
    /\ ScanFrame

\* return 0 after genre_filter.get_statistics(all_movies, filtered_movies)
ScanSummary(ms, fl) ==
    /\ stats' = Some([movies |-> ms, filtered_movies |-> fl,
                      returned |-> get_statistics(ms, fl)])
    /\ Exit(0)

\* get_movies is back: the scan, the genre filter, KeepListManager(), the
\* table and the kept count; then the prompt when --interactive, else the
\* summary
CmdScanScanned ==
    /\ top = "cmd_scan"
    /\ pc = "scan"
    /\ ~call.active
    /\ \/ /\ outcome.kind = "raise"
          /\ Abort(outcome)
          /\ UNCHANGED <<all_movies, filtered_movies, kept_movies, keepList,
                         storeOp, stats>>
       \/ /\ outcome.kind = "return" /\ outcome.value = "object"
          /\ Abort(Raise("AttributeError"))
          /\ UNCHANGED <<all_movies, filtered_movies, kept_movies, keepList,
                         storeOp, stats>>
       \/ /\ outcome.kind = "return" /\ outcome.value = "None"
          /\ Exit(0)
          /\ UNCHANGED <<all_movies, filtered_movies, kept_movies, keepList,
                         storeOp, stats, raised>>
       \/ /\ outcome.kind = "return" /\ outcome.value = "array"
          /\ \E raw_movies \in Catalogs :
              LET ms == scan(raw_movies)
                  fl == filter(args.genre, ms)
                  keep == load(keepFile)
              IN  /\ all_movies' = ms
                  /\ IF ms = <<>>
                     THEN /\ Exit(0)
                          /\ UNCHANGED <<filtered_movies, kept_movies, keepList,
                                         storeOp, stats, raised>>
                     ELSE /\ filtered_movies' = fl
                          /\ storeOp' = [NoStoreOp EXCEPT
                                            !.op = "__init__",
                                            !.raised = load_raises(keepFile),
                                            !.fileBefore = keepFile]
                          /\ IF load_raises(keepFile) # ""
                             THEN /\ Abort(Raise(load_raises(keepFile)))
                                  /\ UNCHANGED <<kept_movies, keepList, stats>>
                             ELSE /\ keepList' = Some(keep)
                                  /\ kept_movies' =
                                       SelectSeqIdx(fl, [k \in 1..Len(fl) |->
                                           is_kept(keep, fl[k].id, None)], 1)
                                  /\ IF args.interactive
                                        /\ ~args.questionary_available
                                     THEN /\ Abort(Raise("RuntimeError"))
                                          /\ UNCHANGED stats
                                     ELSE IF args.interactive /\ fl # <<>>
                                     THEN /\ pc' = "select"
                                          /\ UNCHANGED <<exitCode, stats, raised>>
                                     ELSE /\ ScanSummary(ms, fl)
                                          /\ UNCHANGED raised
    /\ ForgetCall
    /\ UNCHANGED <<keepFile, now, selection>>
    /\ ScanFrame

\* questionary.checkbox(...).ask() returns the checked entries, or None when
\* the user cancels; the new ones are added, then the summary
CmdScanSelect ==
    /\ top = "cmd_scan"
    /\ pc = "select"
    /\ \E selected \in {None} \cup
            {Some(SelectSeqIdx(filtered_movies, picked, 1)) :
                picked \in [1..Len(filtered_movies) -> BOOLEAN]} :
        LET keep == Val(keepList)
            newly_kept == newly_selected(keep, filtered_movies, selected)
            after == add_each([movies |-> keep, now |-> now], newly_kept)
        IN  /\ selection' = [asked |-> TRUE, cancelled |-> selected = None,
                             selected |-> newly_kept]
            /\ keepList' = Some(after.movies)
            /\ now' = after.now
            /\ IF after.movies = keep
               THEN UNCHANGED <<keepFile, storeOp>>
               ELSE /\ keepFile' = save(keepFile, after.movies)
                    /\ storeOp' = StoreOp("add", None, None, None, TRUE)
    /\ ScanSummary(all_movies, filtered_movies)
    /\ UNCHANGED <<all_movies, filtered_movies, kept_movies, raised>>
    /\ UNCHANGED <<call, resp, trace, outcome>>
    /\ ScanFrame

InitScan ==
    /\ top = "cmd_scan"
    /\ pc = "cmd_scan"
    /\ args \in ScanArgs
    /\ IdleClient
    /\ all_movies = <<>>
    /\ filtered_movies = <<>>
    /\ kept_movies = <<>>
    /\ keepFile \in KeepFiles
    /\ keepList = None
    /\ confirmation = "not_asked"
    /\ exitCode = None
    /\ IdleDeleter
    /\ IdleLib

NextScan ==
    \/ CmdScanStart
    \/ RequestAttempt
    \/ CmdScanConnected
    \/ CmdScanScanned
    \/ CmdScanSelect

SpecScan == InitScan /\ [][NextScan]_vars

(***************************************************************************)
(* Two processes on one keep-list file: each constructs a KeepListManager  *)
(* (load) and then calls add (append to its own self.movies, save).        *)
(***************************************************************************)
\* the (id, title) each process adds
RaceAdds == { <<Some(3), "Raw">>, <<Some(4), "Saw">>, <<Some(1), "Saw">> }

\* a slip: add works on the records of the file as it is now
self_movies_reloaded(p) == load(keepFile)
\* self.movies of the store of process p
self_movies(p) == procs[p].movies

RaceFrame ==
    /\ UNCHANGED <<top, pc, args, all_movies, filtered_movies, kept_movies,
                   keepList, confirmation, exitCode, storeOp, self_genre,
                   stats, raised, selection, server>>
    /\ UNCHANGED clientVars
    /\ UNCHANGED deleterVars

\* KeepListManager(): self.load()
ProcLoad ==
    /\ top = "race"
    /\ \E p \in {1, 2} :
        /\ procs[p].pc = "start"
        /\ IF load_raises(keepFile) # ""
           THEN /\ procs' = [procs EXCEPT ![p].pc = "raised"]
                /\ events' = Append(events, [proc |-> p, op |-> "raise",
                                             movies |-> <<>>])
           ELSE /\ procs' = [procs EXCEPT ![p].pc = "loaded",
                                          ![p].movies = load(keepFile)]
                /\ events' = Append(events, [proc |-> p, op |-> "load",
                                             movies |-> load(keepFile)])
    /\ UNCHANGED <<keepFile, now>>
    /\ RaceFrame

\* keep_list.add(movie_id, title): nothing for a known id, else append and
\* save, which replaces the file by self.movies
ProcAdd ==
    /\ top = "race"
    /\ \E p \in {1, 2} :
        /\ procs[p].pc = "loaded"
        /\ LET after == add(self_movies(p), procs[p].id, procs[p].title,
                            Tick(now))
           IN  /\ procs' = [procs EXCEPT ![p].pc = "done",
                                         ![p].movies = after]
               /\ IF after = self_movies(p)
                  THEN /\ events' = Append(events,
                                          [proc |-> p, op |-> "known",
                                           movies |-> after])
                       /\ UNCHANGED <<keepFile, now>>
                  ELSE /\ events' = Append(events,
                                          [proc |-> p, op |-> "save",
                                           movies |-> after])
                       /\ keepFile' = save(keepFile, after)
                       /\ now' = Tick(now)
    /\ RaceFrame

InitRace ==
    /\ top = "race"
    /\ pc = "race"
    /\ args = [op |-> "race"]
    /\ IdleClient
    /\ all_movies = <<>>
    /\ filtered_movies = <<>>
    /\ kept_movies = <<>>
    /\ keepFile \in KeepFiles
    /\ keepList = None
    /\ confirmation = "not_asked"
    /\ exitCode = None
    /\ IdleDeleter
    /\ now = "t"
    /\ storeOp = NoStoreOp
    /\ self_genre = ""
    /\ stats = None
    /\ raised = NotRaised
    /\ selection = NotAsked
    /\ \E a, b \in RaceAdds :
          /\ a[1] # b[1]
          /\ procs = [p \in {1, 2} |->
                        [pc |-> "start", movies |-> <<>>,
                         id |-> IF p = 1 THEN a[1] ELSE b[1],
                         title |-> IF p = 1 THEN a[2] ELSE b[2]]]
    /\ events = <<>>
    /\ server = <<>>

NextRace == ProcLoad \/ ProcAdd

SpecRace == InitRace /\ [][NextRace]_vars

(***************************************************************************)
(* delete_movies against a server that holds the catalog: a DELETE the     *)
(* server has processed removes the entry, whatever the client then sees.  *)
(***************************************************************************)
\* the server holds an entry of this id
OnServer(movie_id) == \E k \in 1..Len(server) : server[k].id = movie_id

\* what the server can answer to the request of the call, and whether it
\* has processed it: a DELETE of an entry it holds succeeds; of an entry it
\* does not hold gives 404; a Timeout or a ConnectionError can hit the
\* request before or after the server processed it; other answers (a 400, a
\* 5xx of a proxy, another exception) come without processing
Answers(r, processed) ==
    LET held == OnServer(call.endpoint.id)
    IN  IF r.kind = "response" /\ IsSuccess(r.status_code)
        THEN held /\ processed /\ r.status_code # 304
        ELSE IF r.kind = "response" /\ r.status_code = 404
        THEN ~held /\ ~processed
        ELSE IF r.kind \in Retried THEN processed => held
        ELSE ~processed

\* one iteration of the loop of _request, with the server's side of it
ServerAttempt ==
    /\ call.active
    /\ call.attempt < max_retries
    /\ call.method = "DELETE"
    /\ \E r \in Responses, processed \in BOOLEAN :
        /\ Answers(r, processed)
        /\ Attempt(r)
        /\ server' = IF processed
                     THEN SelectSeqIdx(server,
                              [k \in 1..Len(server) |->
                                  server[k].id # call.endpoint.id], 1)
                     ELSE server
    /\ UNCHANGED <<top, pc, args>>
    /\ UNCHANGED cmdVars
    /\ UNCHANGED deleterVars
    /\ UNCHANGED <<now, storeOp, self_genre, stats, raised, selection, procs,
                   events>>

\* the batch is the scan of what the server holds
InitServer ==
    /\ top = "delete_movies"
    /\ pc = "delete_movies"
    /\ args = [op |-> "delete_movies"]
    /\ IdleClient
    /\ IdleCmd
    /\ server \in Catalogs
    /\ movies = scan(server)
    /\ keep_files \in BOOLEAN
    /\ dry_run \in BOOLEAN
    /\ idx = 1
    /\ results = NoResults
    /\ callLog = <<>>
    /\ now = "t"
    /\ storeOp = NoStoreOp
    /\ self_genre = ""
    /\ stats = None
    /\ raised = NotRaised
    /\ selection = NotAsked
    /\ procs = NoProcs
    /\ events = <<>>

NextServer ==
    DeleteMoviesStep \/ ServerAttempt \/ DeleteMovieDone \/ DeleteMoviesReturn

SpecServer == InitServer /\ [][NextServer]_vars

(***************************************************************************)
(* Properties.                                                             *)
(***************************************************************************)
\* ids of the DELETE requests sent or about to be sent
DeleteTargets ==
    {d.endpoint.id : d \in deleteLog}
    \cup (IF call.method = "DELETE" THEN {call.endpoint.id} ELSE {})

\* every DELETE request sent or about to be sent, with its parameters
DeleteRequests ==
    deleteLog
    \cup (IF call.method = "DELETE"
          THEN {[endpoint |-> call.endpoint, params |-> call.params]} ELSE {})

\* the title recorded for each entry of ms
Titles(ms) ==
    [k \in 1..Len(ms) |->
        IF ms[k].title = <<>> THEN "Unknown Title" ELSE ms[k].title[1]]
\* the titles of the entries that have an id, and of those that lack one
TitlesWithId(ms) ==
    SelectSeqIdx(Titles(ms), [k \in 1..Len(ms) |-> ms[k].id # <<>>], 1)
TitlesWithoutId(ms) ==
    SelectSeqIdx(Titles(ms), [k \in 1..Len(ms) |-> ms[k].id = <<>>], 1)
AllHaveIds(ms) == \A k \in 1..Len(ms) : ms[k].id # <<>>
Count(log, what) == Cardinality({k \in 1..Len(log) : log[k] = what})

\* the run has caught an exception of the given class
Handled(e) == raised.how = "caught" /\ raised.exc = e
HandledAny == raised.how = "caught"

\* C21: the delete command returns 1 exactly when an entry ended under
\* `failed` or an error was handled (a RadarrAPIError or another exception),
\* and 0 otherwise: everything deleted or simulated, nothing in the catalog,
\* nothing of the genre, every match kept, or the confirmation declined.
C21_ExitCode ==
    (top = "cmd_delete" /\ exitCode # None) =>
        /\ exitCode \in {Some(0), Some(1)}
        /\ exitCode = Some(1) <=> (results.failed # <<>> \/ HandledAny)
        /\ exitCode = Some(0) =>
              \/ pc = "done" /\ idx = Len(movies) + 1 /\ movies # <<>>
                 /\ Len(results.deleted) + Len(results.skipped) = Len(movies)
              \/ all_movies = <<>>
              \/ filtered_movies = <<>>
              \/ confirmation = "declined"
\* a batch that deleted one entry and failed on another ended with 1
C21_Witness ==
    /\ top = "cmd_delete" /\ exitCode = Some(1)
    /\ results.deleted # <<>> /\ results.failed # <<>>
    /\ ~HandledAny

\* C23: when test_connection or the scan raises RadarrAPIError in a delete
\* run, the run ends there with exit code 1: no prompt has been shown, no
\* DELETE request has been sent, the keep list has not been loaded or
\* written, and nothing happens afterwards.
C23_ApiErrorAborts ==
    /\ []((top = "cmd_delete" /\ Handled("RadarrAPIError")) =>
            /\ exitCode = Some(1) /\ pc = "done"
            /\ confirmation = "not_asked"
            /\ DeleteRequests = {}
            /\ keepList = None /\ storeOp = NoStoreOp /\ now = "t"
            /\ movies = <<>> /\ callLog = <<>>)
    /\ [][(top = "cmd_delete" /\ Handled("RadarrAPIError")) => FALSE]_vars
    /\ [][top = "cmd_delete" => keepFile' = keepFile]_vars
\* the scan raised RadarrAPIError with a status code after a connection test
\* that succeeded
C23_Witness ==
    /\ top = "cmd_delete" /\ Handled("RadarrAPIError")
    /\ raised.endpoint = MovieList /\ raised.status_code = 404
    /\ exitCode = Some(1)

\* C22: a command never ends with an exception that no except clause
\* caught: every run that is over has returned an exit code.
C22_NoUncaughtException ==
    (top = "cmd_keep" /\ pc = "done") =>
        (raised.how # "uncaught" /\ exitCode # None)

\* the catalog entries `keep add` is asked for: by id when one is given,
\* else by title
Asked(raw_movies, a) ==
    IF a.id # None THEN ById(raw_movies, a.id)
    ELSE IF a.title # None THEN ByTitle(raw_movies, Val(a.title))
    ELSE <<>>
\* the keep list holds a record with the id and the title of the entry
HoldsEntry(keep, movie) ==
    \E k \in 1..Len(keep) :
        keep[k].id = movie.id /\ Some(keep[k].title) = movie.title

\* C26: a `keep add` that ends without an exception returns 1 and leaves
\* the keep list and its file as they were when neither an id nor a title is
\* given, when no catalog entry has the id, or when the title matches no
\* entry or more than one; otherwise the entry found is kept afterwards, in
\* the list and in the file.
C26_KeepAddValidates ==
    (top = "cmd_keep" /\ args.keep_command = "add" /\ pc = "done"
        /\ raised = NotRaised) =>
        LET found == Asked(server, args)
            rejected == IF args.id # None THEN found = <<>>
                        ELSE Len(found) # 1
        IN  IF rejected
            THEN /\ exitCode = Some(1)
                 /\ keepFile = storeOp.fileBefore
                 /\ Val(keepList) = load(keepFile)
            ELSE /\ HoldsEntry(Val(keepList), found[1])
                 /\ HoldsEntry(load(keepFile), found[1])

\* C25: when the user cancels the interactive selection of a scan,
\* interactive_keep_selection returns the empty list, no record is added to
\* the keep list, the keep-list file is not written, and the command ends
\* with exit code 0.
C25_CancelKeepsNothing ==
    (top = "cmd_scan" /\ selection.asked /\ selection.cancelled) =>
        /\ selection.selected = <<>>
        /\ exitCode = Some(0) /\ pc = "done"
        /\ keepList = Some(load(storeOp.fileBefore))
        /\ keepFile = storeOp.fileBefore
        /\ storeOp.op = "__init__" /\ ~storeOp.saved
        /\ now = "t"
        /\ raised = NotRaised
\* the prompt offered an entry that is not kept, and the user cancelled
C25_Witness ==
    /\ top = "cmd_scan" /\ selection.asked /\ selection.cancelled
    /\ exitCode = Some(0)
    /\ \E k \in 1..Len(filtered_movies) :
          ~is_kept(Val(keepList), filtered_movies[k].id, None)

\* the operations on the keep-list file in the order they happened
Ops == [k \in 1..Len(events) |-> events[k].op]

\* C24: two processes each load the keep-list file and add an id that is
\* not in it. When both loads come before both saves, the file ends up as
\* the last writer wrote it: the records both loaded plus the last writer's
\* record, and the record of the other process is lost. When one process
\* loads and saves before the other loads, the file holds both records.
C24_LastWriterWins ==
    (top = "race" /\ \A p \in {1, 2} : procs[p].pc = "done") =>
        /\ Ops = <<"load", "load", "save", "save">> =>
              LET other == events[3].proc
                  last == events[4].proc
              IN  /\ other # last
                  /\ load(keepFile) = events[4].movies
                  /\ Len(load(keepFile)) = Len(events[1].movies) + 1
                  /\ has_id(load(keepFile), procs[last].id)
                  /\ ~has_id(load(keepFile), procs[other].id)
        /\ Ops = <<"load", "save", "load", "save">> =>
              /\ events[1].proc = events[2].proc
              /\ Len(load(keepFile)) = Len(events[1].movies) + 2
              /\ \A p \in {1, 2} : has_id(load(keepFile), procs[p].id)
\* load, load, save, save has happened on a file that held records
C24_Witness ==
    /\ top = "race" /\ \A p \in {1, 2} : procs[p].pc = "done"
    /\ Ops = <<"load", "load", "save", "save">>
    /\ events[1].movies # <<>>

\* C30: in a batch that is no dry run, an entry recorded under `failed` is
\* still held by the server.
C30_FailedNotDeleted ==
    (top = "delete_movies" /\ ~dry_run /\ server # <<>>) =>
        \A k \in 1..Len(callLog) :
            callLog[k] # "returned" => OnServer(movies[k].id)

\* C1: in a delete run without --ignore-keep-list, no entry whose id is the
\* id of a record of the keep list as loaded by the run is passed to the
\* client's delete operation.
C1_KeptNeverDeleted ==
    (~args.ignore_keep_list /\ DeleteTargets # {}) =>
        /\ keepList # <<>>
        /\ \A k \in 1..Len(keepList[1]) : keepList[1][k].id \notin DeleteTargets

\* a run that skipped a kept entry and sent a DELETE for another one
C1_Witness ==
    /\ ~args.ignore_keep_list
    /\ kept_movies # <<>>
    /\ deleteLog # {}

\* C2: a DELETE request is sent only if --execute was given and, before the
\* first request, --yes was given or the prompt was answered affirmatively;
\* after a declined confirmation none is ever sent.
C2_DeleteOnlyWhenConfirmed ==
    /\ DeleteTargets # {} =>
          args.execute /\ (args.yes \/ confirmation = "accepted")
    /\ confirmation = "declined" => DeleteTargets = {}

\* a DELETE request sent after the user accepted the prompt
C2_Witness ==
    /\ deleteLog # {}
    /\ ~args.yes
    /\ confirmation = "accepted"

\* C3: delete_movies with dry_run=true never invokes the client's delete
\* operation and records the title of every entry that has an id under
\* `deleted` (so only the entries that lack one come under `failed`).
C3_DryRunRecordsEveryId ==
    dry_run =>
        /\ DeleteTargets = {}
        /\ ~call.active
        /\ pc = "returned" =>
              /\ results.deleted = TitlesWithId(movies)
              /\ results.failed = TitlesWithoutId(movies)

\* C4: failure isolation: in a run that is not a dry run every entry is
\* processed, and n entries with ids of which k raise give exactly n-k
\* titles in `deleted` and k in `failed`.
C4_FailureIsolation ==
    (~dry_run /\ pc = "returned" /\ AllHaveIds(movies)) =>
        /\ Len(callLog) = Len(movies)
        /\ Len(results.failed) = Count(callLog, "raised")
        /\ Len(results.deleted) = Len(movies) - Count(callLog, "raised")

\* C5: every DELETE request of delete_movies carries deleteFiles = "false"
\* when keep_files is true and "true" when it is false, and
\* addImportExclusion = "true".
C5_DeleteParameters ==
    \A d \in DeleteRequests :
        /\ d.params.deleteFiles = (IF keep_files THEN "false" ELSE "true")
        /\ d.params.addImportExclusion = "true"

\* a DELETE request sent while files are kept
C5_Witness ==
    /\ keep_files
    /\ deleteLog # {}

\* the events of a call whose three attempts are all made
FullTrace ==
    <<"request", "sleep 1", "request", "sleep 2", "request">>
EventNames ==
    [k \in 1..Len(trace) |->
        IF trace[k].ev = "request" THEN "request"
        ELSE IF trace[k].secs = 1 THEN "sleep 1"
        ELSE IF trace[k].secs = 2 THEN "sleep 2" ELSE "sleep other"]
Ended == ~call.active /\ outcome.kind # "none"
LastFailed ==
    \/ resp.kind = "response" /\ resp.status_code >= 500
    \/ resp.kind \in {"ConnectionError", "Timeout"}

\* C6: one _request call makes at most 3 attempts, sleeping 1s before the
\* second and 2s before the third and never after the last; a call whose
\* last attempt is a 5xx answer or a connection/timeout failure has made
\* exactly 3 attempts and 2 sleeps and raises RadarrAPIError; an answer
\* below 400 ends the call at once.
C6_BoundedRetry ==
    /\ Len(trace) <= 5
    /\ \A k \in 1..Len(trace) : EventNames[k] = FullTrace[k]
    /\ Ended => trace[Len(trace)].ev = "request"
    /\ (Ended /\ LastFailed) =>
          /\ EventNames = FullTrace
          /\ outcome.exc = "RadarrAPIError"
    /\ (resp.kind = "response" /\ resp.status_code < 400) => Ended

\* three 5xx answers in a row: RadarrAPIError after 3 attempts and 2 sleeps
C6_Witness ==
    /\ Ended
    /\ outcome.exc = "RadarrAPIError"
    /\ EventNames = FullTrace
    /\ \A k \in {1, 3, 5} : trace[k].got = "5xx"

\* C7: a 4xx answer is never retried: _request raises RadarrAPIError with
\* that status code and the endpoint, with no further attempt and no sleep
\* after it.
C7_ClientErrorRaisesTyped ==
    (resp.kind = "response" /\ 400 <= resp.status_code /\ resp.status_code < 500) =>
        /\ Ended
        /\ trace[Len(trace)].ev = "request"
        /\ outcome.exc = "RadarrAPIError"
        /\ outcome.status_code = resp.status_code
        /\ outcome.endpoint = call.endpoint

\* C8: when all 3 attempts fail, RadarrAPIError carries the 5xx status code
\* ("server error after retries") if the last attempt was a 5xx answer and
\* 0 ("connection error after retries") if it was a connection/timeout
\* failure, whatever the earlier attempts were.
C8_ExhaustedError ==
    (Ended /\ LastFailed) =>
        /\ outcome.exc = "RadarrAPIError"
        /\ outcome.endpoint = call.endpoint
        /\ resp.kind = "response" =>
              /\ outcome.status_code = resp.status_code
              /\ outcome.message = "Server error after retries"
        /\ resp.kind # "response" =>
              /\ outcome.status_code = 0
              /\ outcome.message = "Connection error after retries"

\* a mixed sequence: a network failure first, a 5xx answer last
C8_Witness ==
    /\ Ended
    /\ Len(trace) = 5
    /\ trace[1].got = "network"
    /\ resp.kind = "response" /\ resp.status_code = 503
    /\ outcome.status_code = 503

\* C9: test_connection returns only for a 2xx answer, fails on every other
\* answer and on a network failure once the retries are used up, and every
\* failure it surfaces is a RadarrAPIError.
C9_TestConnectionTyped ==
    (top = "client" /\ args.op = "test_connection" /\ pc = "done") =>
        /\ outcome.kind = "return" <=>
              (resp.kind = "response" /\ 200 <= resp.status_code
                                      /\ resp.status_code < 300)
        /\ outcome.kind = "raise" => outcome.exc = "RadarrAPIError"

\* C10: delete_movies sends no request for an entry that lacks an id and
\* records it under `failed`; every entry that has an id is simulated (dry
\* run) or passed to the client's delete operation.
C10_EveryIdHandled ==
    /\ <<>> \notin DeleteTargets
    /\ Len(callLog) <= Len(movies)
    /\ \A k \in 1..Len(callLog) :
          IF movies[k].id = <<>>
          THEN callLog[k] = "not called"
          ELSE IF dry_run THEN callLog[k] = "simulated"
          ELSE /\ callLog[k] \in {"returned", "raised"}
               /\ movies[k].id \in DeleteTargets
    /\ pc = "returned" =>
          /\ Len(callLog) = Len(movies)
          /\ \A k \in 1..Len(movies) :
                movies[k].id = <<>> =>
                    \E j \in 1..Len(results.failed) :
                        results.failed[j] = Titles(movies)[k]

(***************************************************************************)
(* Properties of the keep-list store.                                      *)
(***************************************************************************)
\* at most one record per id
OnePerId(keep) ==
    \A a, b \in 1..Len(keep) : keep[a].id = keep[b].id => a = b
\* the number of records of keep that have this id
CountId(keep, movie_id) ==
    Cardinality({k \in 1..Len(keep) : keep[k].id = movie_id})
\* the store exists (its construction did not raise)
Constructed == top = "store" /\ pc = "store"
\* what a fresh KeepListManager on the same file holds
FreshStore == load(keepFile)

\* C11 as stated: in every reachable state of the store, after construction
\* from any keep-list file and any sequence of add, remove, clear and load,
\* the record list holds at most one record per id.
C11_OneRecordPerId ==
    Constructed => OnePerId(Val(keepList))

\* C11 as amended: construction from a file whose records have pairwise
\* distinct ids gives a list with at most one record per id, and no add,
\* remove, clear or load of a store whose list has that property loses it.
C11_OneRecordPerIdPreserved ==
    [][(IF keepList = None THEN OnePerId(load(keepFile))
                           ELSE OnePerId(Val(keepList)))
        => (keepList' # None => OnePerId(Val(keepList')))]_vars

\* add met an id already in a list of two records with distinct ids
C11_Witness ==
    /\ Constructed
    /\ storeOp.op = "add"
    /\ has_id(storeOp.before, storeOp.movie_id)
    /\ Len(Val(keepList)) >= 2
    /\ OnePerId(Val(keepList))

\* C12: add(id, title) with an id already present is a no-op: the list is
\* unchanged, the file is not written, the record keeps its title; adding
\* an id leaves exactly one record of it however often it is added.
C12_AddIsIdempotent ==
    (Constructed /\ storeOp.op = "add") =>
        /\ has_id(storeOp.before, storeOp.movie_id) =>
              /\ Val(keepList) = storeOp.before
              /\ keepFile = storeOp.fileBefore
              /\ ~storeOp.saved
        /\ ~has_id(storeOp.before, storeOp.movie_id) =>
              /\ CountId(Val(keepList), storeOp.movie_id) = 1
              /\ storeOp.saved

\* add with a known id and a title other than the recorded one
C12_Witness ==
    /\ Constructed
    /\ storeOp.op = "add"
    /\ ~storeOp.saved
    /\ \E k \in 1..Len(Val(keepList)) :
          /\ Val(keepList)[k].id = storeOp.movie_id
          /\ Val(keepList)[k].title # Val(storeOp.title)

\* C13: write-through: after every add, remove or clear, for any sequence of
\* them, the movies sequence of the file is the in-memory list, so that a
\* fresh store on the file holds exactly the current records.
C13_WriteThrough ==
    Constructed =>
        /\ FreshStore = Val(keepList)
        /\ storeOp.saved => keepFile = JsonFile(Val(keepList))

\* a removal that left a record: the file holds what the store holds
C13_Witness ==
    /\ Constructed
    /\ storeOp.op = "remove"
    /\ storeOp.saved
    /\ Val(keepList) # <<>>
    /\ keepFile.movies = Val(keepList)

\* the records of before that are still in after, in the order of before
Remaining(before, after) ==
    SelectSeqIdx(before, [k \in 1..Len(before) |->
                             \E j \in 1..Len(after) : after[j] = before[k]], 1)
\* the records are in the order in which they were added
InInsertionOrder(keep) ==
    \A a, b \in 1..Len(keep) :
        a < b => Len(keep[a].added_at) <= Len(keep[b].added_at)

\* C14: round trip: after adding records with distinct ids a fresh store on
\* the file holds the same records (id, title, added_at) in insertion order;
\* a removal keeps the order of the records that remain.
C14_RoundTrip ==
    Constructed =>
        /\ Len(FreshStore) = Len(Val(keepList))
        /\ \A k \in 1..Len(FreshStore) :
              /\ FreshStore[k].id = Val(keepList)[k].id
              /\ FreshStore[k].title = Val(keepList)[k].title
              /\ FreshStore[k].added_at = Val(keepList)[k].added_at
        /\ InInsertionOrder(FreshStore)
        /\ (storeOp.op = "add" /\ storeOp.saved) =>
              FreshStore = Append(storeOp.before,
                                  [id |-> storeOp.movie_id,
                                   title |-> Val(storeOp.title),
                                   added_at |-> now])
        /\ storeOp.op = "remove" =>
              FreshStore = Remaining(storeOp.before, FreshStore)

\* two records added one after the other to an empty store
C14_Witness ==
    /\ Constructed
    /\ storeOp.op = "add"
    /\ storeOp.saved
    /\ Len(FreshStore) = 2
    /\ FreshStore[1].added_at = "t+"
    /\ FreshStore[2].added_at = "t++"

\* C15: constructing or loading the store never propagates an error: an
\* absent file, malformed JSON, a file that cannot be read and a JSON file
\* without a "movies" key all give an empty list.
C15_LoadNeverRaises ==
    (top = "store" /\ storeOp.op = "__init__") =>
        /\ storeOp.raised = ""
        /\ pc = "store"
        /\ storeOp.fileBefore.kind # "object" => keepList = Some(<<>>)

\* what remove(movie_id, title) has to leave of the list
ExpectedAfterRemove(before, movie_id, title) ==
    IF movie_id # None
    THEN SelectSeqIdx(before, [k \in 1..Len(before) |->
                                  before[k].id # movie_id], 1)
    ELSE IF title # None
    THEN SelectSeqIdx(before, [k \in 1..Len(before) |->
                                  Lower(before[k].title) # Lower(Val(title))], 1)
    ELSE before

\* C16: remove(id, title) removes by id when an id is given (the title is
\* then not consulted), else by case-insensitive exact title; it returns
\* true iff a record was removed and writes the file only then; with neither
\* argument or without a match, list and file stay and it returns false.
C16_Remove ==
    (Constructed /\ storeOp.op = "remove") =>
        LET removed == Len(Val(keepList)) < Len(storeOp.before)
        IN  /\ Val(keepList) = ExpectedAfterRemove(storeOp.before,
                                   storeOp.movie_id, storeOp.title)
            /\ storeOp.returned = Some(removed)
            /\ storeOp.saved = removed
            /\ ~removed => /\ Val(keepList) = storeOp.before
                           /\ keepFile = storeOp.fileBefore
            /\ (storeOp.movie_id = None /\ storeOp.title = None) => ~removed

\* removal by id although the title given is that of another record, which
\* stays
C16_Witness ==
    /\ Constructed
    /\ storeOp.op = "remove"
    /\ storeOp.movie_id # None
    /\ storeOp.title # None
    /\ storeOp.returned = Some(TRUE)
    /\ has_title(Val(keepList), Val(storeOp.title))

\* C17: is_kept(id, title) checks the id before the title: with an id, true
\* iff a record has that id; with a title only, true iff a record's title
\* equals it ignoring case; with neither, false. It changes neither the
\* store nor the file.
C17_IsKept ==
    (Constructed /\ storeOp.op = "is_kept") =>
        /\ storeOp.movie_id # None =>
              storeOp.returned =
                  Some(\E k \in 1..Len(storeOp.before) :
                          storeOp.before[k].id = storeOp.movie_id)
        /\ (storeOp.movie_id = None /\ storeOp.title # None) =>
              storeOp.returned =
                  Some(\E k \in 1..Len(storeOp.before) :
                          Lower(storeOp.before[k].title)
                              = Lower(Val(storeOp.title)))
        /\ (storeOp.movie_id = None /\ storeOp.title = None) =>
              storeOp.returned = Some(FALSE)
        /\ Val(keepList) = storeOp.before
        /\ keepFile = storeOp.fileBefore

\* an unknown id together with the title of a kept record: not kept
C17_Witness ==
    /\ Constructed
    /\ storeOp.op = "is_kept"
    /\ storeOp.movie_id # None
    /\ storeOp.title # None
    /\ has_title(Val(keepList), Val(storeOp.title))
    /\ storeOp.returned = Some(FALSE)

\* C18: filter_kept(entries) returns, in input order, exactly the entries
\* whose id is not the id of a kept record; an entry without an id is always
\* retained, whatever the keep list holds.
C18_FilterKept ==
    (Constructed /\ storeOp.op = "filter_kept") =>
        LET entries == storeOp.entries
            retained == [k \in 1..Len(entries) |->
                            \/ entries[k].id = None
                            \/ \A j \in 1..Len(storeOp.before) :
                                  storeOp.before[j].id # entries[k].id]
        IN  storeOp.returned = Some(SelectSeqIdx(entries, retained, 1))

(***************************************************************************)
(* Properties of the genre filter.                                         *)
(***************************************************************************)
\* spellings of one word
Spellings ==
    { {"Horror", "HORROR", "horror"}, {"Comedy", "comedy"},
      {"Sci-Fi", "sci-fi"} }
EqualIgnoringCase(a, b) ==
    a = b \/ \E w \in Spellings : a \in w /\ b \in w
\* the entry has a genre equal to the target ignoring case
HasGenre(movie, target) ==
    /\ movie.genres # None
    /\ \E k \in 1..Len(Val(movie.genres)) :
          EqualIgnoringCase(Val(movie.genres)[k], target)

\* C19: GenreFilter.filter is case-insensitive and order-preserving: target
\* genres that differ only in case give the same result, the subsequence in
\* input order of the entries that have a genre equal to the target ignoring
\* case; entries with an empty or absent genre list are never included.
C19_FilterIgnoresCase ==
    (top = "filter" /\ pc = "filtered") =>
        /\ filtered_movies =
              SelectSeqIdx(all_movies,
                  [k \in 1..Len(all_movies) |->
                      HasGenre(all_movies[k], args.genre)], 1)
        /\ \A other \in FilterGenres :
              EqualIgnoringCase(other, args.genre) =>
                  filtered_movies = filter(other, all_movies)
        /\ \A k \in 1..Len(filtered_movies) :
              /\ filtered_movies[k].genres # None
              /\ Val(filtered_movies[k].genres) # <<>>

\* the target in capitals finds an entry whose genre is spelled otherwise and
\* skips an entry that has no genres
C19_Witness ==
    /\ top = "filter" /\ pc = "filtered"
    /\ args.genre = "HORROR"
    /\ \E k \in 1..Len(filtered_movies) :
          \E j \in 1..Len(Val(filtered_movies[k].genres)) :
              Val(filtered_movies[k].genres)[j] = "Horror"
    /\ \E k \in 1..Len(all_movies) :
          Get(all_movies[k].genres, <<>>) = <<>>

\* f is a subsequence of a
RECURSIVE IsSubsequence(_, _)
IsSubsequence(f, a) ==
    IF f = <<>> THEN TRUE
    ELSE IF a = <<>> THEN FALSE
    ELSE IF Head(f) = Head(a) THEN IsSubsequence(Tail(f), Tail(a))
    ELSE IsSubsequence(f, Tail(a))
NoNegativeSize(ms) ==
    \A k \in 1..Len(ms) : Get(ms[k].sizeOnDisk, 0) >= 0
\* the sum of sizeOnDisk over the list, an absent size counted as 0
RECURSIVE TotalSize(_, _)
TotalSize(ms, k) ==
    IF k = 0 THEN 0
    ELSE TotalSize(ms, k - 1)
         + (IF ms[k].sizeOnDisk = None THEN 0 ELSE Val(ms[k].sizeOnDisk))

\* C20 as stated: get_statistics(all, filtered) satisfies
\* filtered_size_bytes <= total_size_bytes and filtered_count <= total_count
\* for any input.
C20_StatisticsOrdered ==
    stats # None =>
        /\ Val(stats).returned.filtered_count <= Val(stats).returned.total_count
        /\ Val(stats).returned.filtered_size_bytes
              <= Val(stats).returned.total_size_bytes

\* C20 as amended: each count is the length of its list and each size the
\* sum of sizeOnDisk over it (absent: 0); when filtered is a subsequence of
\* all and no size is negative, the filtered count and size are at most the
\* total count and size.
C20_StatisticsOrderedForSubsequence ==
    stats # None =>
        LET call_ == Val(stats)
            r == call_.returned
        IN  /\ r.total_count = Len(call_.movies)
            /\ r.filtered_count = Len(call_.filtered_movies)
            /\ r.total_size_bytes = TotalSize(call_.movies, Len(call_.movies))
            /\ r.filtered_size_bytes =
                  TotalSize(call_.filtered_movies, Len(call_.filtered_movies))
            /\ (IsSubsequence(call_.filtered_movies, call_.movies)
                    /\ NoNegativeSize(call_.movies)) =>
                  /\ r.filtered_count <= r.total_count
                  /\ r.filtered_size_bytes <= r.total_size_bytes

\* the statistics of a catalog and of what filter returned of it: a proper,
\* non-empty part
C20_Witness ==
    /\ stats # None
    /\ Val(stats).filtered_movies = filtered_movies
    /\ filtered_movies # <<>>
    /\ NoNegativeSize(all_movies)
    /\ Val(stats).returned.filtered_count < Val(stats).returned.total_count
    /\ Val(stats).returned.filtered_size_bytes > 0

(***************************************************************************)
(* Properties of the deletion loop, continued.                             *)
(***************************************************************************)
\* the titles of the entries whose delete call ended in one of these ways
TitlesOf(ms, log, ways) ==
    SelectSeqIdx(Titles(ms), [k \in 1..Len(ms) |-> log[k] \in ways], 1)

\* C27: after delete_movies returns, `skipped` is empty and every entry has
\* given exactly one title to exactly one of `deleted` and `failed`:
\* len(deleted) + len(failed) is the number of entries and each list is in
\* input order, whatever the entries, the flags and the failures.
C27_OneTitlePerEntry ==
    (top = "delete_movies" /\ pc = "returned") =>
        /\ results.skipped = <<>>
        /\ Len(callLog) = Len(movies)
        /\ Len(results.deleted) + Len(results.failed) = Len(movies)
        /\ results.deleted = TitlesOf(movies, callLog, {"simulated", "returned"})
        /\ results.failed = TitlesOf(movies, callLog, {"not called", "raised"})

\* a batch of two: the first call raised, the second returned
C27_Witness ==
    /\ top = "delete_movies" /\ pc = "returned"
    /\ ~dry_run
    /\ callLog = <<"raised", "returned">>
    /\ Len(results.deleted) = 1 /\ Len(results.failed) = 1

\* the entry is an element of the list
InList(e, l) == \E k \in 1..Len(l) : l[k] = e

\* C28: in a delete run without --ignore-keep-list the list reported as
\* skipped (is_kept(id) true) and the list passed on to deletion
\* (filter_kept) partition the genre-filtered list: every filtered entry,
\* also one without an id, is in exactly one of the two.
C28_KeptAndTodoPartition ==
    (top = "cmd_delete" /\ ~args.ignore_keep_list /\ keepList # None) =>
        LET matched == filter(args.genre, all_movies)
        IN  /\ Len(kept_movies) + Len(filtered_movies) = Len(matched)
            /\ \A k \in 1..Len(matched) :
                  InList(matched[k], kept_movies)
                      # InList(matched[k], filtered_movies)

\* the events of the delete call in progress, and how many are requests
Requests ==
    Cardinality({k \in 1..Len(trace) : trace[k].ev = "request"})

\* C29: the retry counter is per call: a non-dry-run delete_movies sends at
\* most 3 DELETE requests for each entry, one call per entry; an entry whose
\* 3 attempts all fail is recorded under `failed`; the call of the next entry
\* starts at its first attempt, with the 1s delay first; and the batch ends
\* with every entry processed.
C29_RetryPerCall ==
    /\ [](top = "delete_movies" =>
            /\ Requests <= max_retries
            /\ Len(trace) <= Len(FullTrace)
            /\ \A k \in 1..Len(trace) : EventNames[k] = FullTrace[k]
            /\ Len(callLog) <= Len(movies)
            /\ call.active =>
                  /\ idx = Len(callLog) + 1
                  /\ call.endpoint = MovieEndpoint(Val(movies[idx].id))
            /\ (Ended /\ LastFailed) => EventNames = FullTrace
            /\ Len(results.failed)
                  = Count(callLog, "raised") + Count(callLog, "not called"))
    /\ [][(top = "delete_movies" /\ call'.active /\ ~call.active) =>
             (call'.attempt = 0 /\ trace' = <<>>)]_vars
    /\ [][(top = "delete_movies" /\ Ended /\ LastFailed) =>
             (callLog' = Append(callLog, "raised")
              /\ results'.failed = Append(results.failed, TitleOf(movies[idx])))]_vars
    /\ <>(top = "delete_movies" => (pc = "returned" /\ Len(callLog) = Len(movies)))

\* the first entry used up its three attempts; the call of the second one
\* slept 1s after its first attempt
C29_Witness ==
    /\ top = "delete_movies"
    /\ ~dry_run
    /\ callLog = <<"raised">>
    /\ results.failed # <<>>
    /\ call.active
    /\ call.attempt = 1
    /\ Len(trace) = 2 /\ trace[2].ev = "sleep" /\ trace[2].secs = 1

====
